---- MODULE Spec2Model ----
(***************************************************************************)
(* Deterministic risk-detection core of the smart-contract risk analyzer:  *)
(* RiskEngineService.analyze, the six detectors, BaseDetector.createFinding *)
(* and ScoringAlgorithmService.                                            *)
(*                                                                         *)
(* Numbers.  The code works on JavaScript doubles.  Every weight of        *)
(* RISK_WEIGHTS is a multiple of 0.5, so sums of weights are exact; the    *)
(* model keeps weights and scores in hundredths (3.0 is 300) and the       *)
(* confidence in hundredths (0.5 is 50) and computes the roundings of the  *)
(* code (Math.round(x * 10) / 10, Math.round(x * 100) / 100) on exact      *)
(* rationals.                                                              *)
(*                                                                         *)
(* Text.  Source text is a header line, top-level declaration lines and    *)
(* function declarations whose bodies are sequences of statement lines.    *)
(* String.includes and RegExp.test on a piece of text are decided by       *)
(* TextFeatures, which lists the searched constructs each text contains.   *)
(***************************************************************************)
EXTENDS Integers, Sequences, FiniteSets, TLC

VARIABLES
    detectors,        \* RiskEngineService.detectors, the static detector list
    pc,               \* "idle" | "called" | "returned": position of the caller
    contractCode,     \* argument of the analyze call in progress
    ctx,              \* analyze's local context, as the detectors left it
    faulty,           \* detectors whose detect() raises on contractCode
    allFindings,      \* analyze's local findings buffer
    patternsChecked,  \* analyze's local counter
    patternsMatched,  \* analyze's local counter
    outcome,          \* what analyze returned or raised
    firstCall,        \* an earlier completed call, kept to compare repeats
    between,          \* completed analyses of other sources since firstCall
    scan,             \* findMatchingBrace: code, openIndex and the loop's locals
    controller,       \* AnalyzeController.analyze: the AI reply, explanations, result
    limiter           \* rateLimiter: the clock, the counters and the requests in hand

vars == <<detectors, pc, contractCode, ctx, faulty, allFindings, patternsChecked,
          patternsMatched, outcome, firstCall, between, scan, controller, limiter>>

----------------------------------------------------------------------------
(* Bounds *)

MaxFuncs == 2        \* freely chosen function declarations per source (Spec)
MaxCopies == 8       \* copies of one declaration in a source (Spec)
MaxFindings == 3     \* findings per hand-built list (SpecScore)
MaxOrderFuncs == 1   \* function declarations per source (SpecOrder)
MaxRepeatFuncs == 1  \* function declarations per source (SpecRepeat)
MaxBetween == 2      \* analyses of other sources after a remembered one
MaxScenarioFuncs == 3  \* function declarations per source (SpecScenario)
MaxBodyLines == 4      \* statement lines of a forwarding function (SpecScenario)

----------------------------------------------------------------------------
(* risk.types: enums and the weight table *)

RiskType ==
    {"UNLIMITED_MINTING", "OWNER_RESTRICTED_MINTING",
     "WITHDRAW_FUNCTION", "EMERGENCY_WITHDRAWAL", "BALANCE_MANIPULATION",
     "CENTRALIZED_OWNERSHIP", "PAUSABLE_CONTRACT", "OWNERSHIP_TRANSFER",
     "DELEGATECALL_USAGE", "UUPS_PROXY", "TRANSPARENT_PROXY",
     "SELFDESTRUCT", "TX_ORIGIN", "UNCHECKED_CALL",
     "ADJUSTABLE_FEES", "BLACKLIST_MODIFICATION", "MAX_TX_LIMIT",
     "WHITELIST_MODIFICATION"}

Severity == {"LOW", "MEDIUM", "HIGH", "CRITICAL"}

RiskClassification == {"VERY_LOW", "LOW", "MODERATE", "HIGH", "VERY_HIGH"}

\* weight in hundredths
RISK_WEIGHTS ==
    [t \in RiskType |->
        CASE t = "UNLIMITED_MINTING"        -> [weight |-> 300, severity |-> "CRITICAL"]
          [] t = "OWNER_RESTRICTED_MINTING" -> [weight |-> 200, severity |-> "HIGH"]
          [] t = "WITHDRAW_FUNCTION"        -> [weight |-> 300, severity |-> "CRITICAL"]
          [] t = "EMERGENCY_WITHDRAWAL"     -> [weight |-> 350, severity |-> "CRITICAL"]
          [] t = "BALANCE_MANIPULATION"     -> [weight |-> 250, severity |-> "HIGH"]
          [] t = "CENTRALIZED_OWNERSHIP"    -> [weight |-> 200, severity |-> "HIGH"]
          [] t = "PAUSABLE_CONTRACT"        -> [weight |-> 150, severity |-> "MEDIUM"]
          [] t = "OWNERSHIP_TRANSFER"       -> [weight |-> 100, severity |-> "MEDIUM"]
          [] t = "DELEGATECALL_USAGE"       -> [weight |-> 250, severity |-> "HIGH"]
          [] t = "UUPS_PROXY"               -> [weight |-> 150, severity |-> "MEDIUM"]
          [] t = "TRANSPARENT_PROXY"        -> [weight |-> 150, severity |-> "MEDIUM"]
          [] t = "SELFDESTRUCT"             -> [weight |-> 400, severity |-> "CRITICAL"]
          [] t = "TX_ORIGIN"                -> [weight |-> 200, severity |-> "HIGH"]
          [] t = "UNCHECKED_CALL"           -> [weight |-> 150, severity |-> "MEDIUM"]
          [] t = "ADJUSTABLE_FEES"          -> [weight |-> 200, severity |-> "HIGH"]
          [] t = "BLACKLIST_MODIFICATION"   -> [weight |-> 150, severity |-> "MEDIUM"]
          [] t = "MAX_TX_LIMIT"             -> [weight |-> 50,  severity |-> "LOW"]
          [] t = "WHITELIST_MODIFICATION"   -> [weight |-> 100, severity |-> "MEDIUM"]]

classifyRiskScore_strict(score) ==
    IF score < 200 THEN "VERY_LOW"
    ELSE IF score < 400 THEN "LOW"
    ELSE IF score < 600 THEN "MODERATE"
    ELSE IF score < 800 THEN "HIGH"
    ELSE "VERY_HIGH"

classifyRiskScore(score) ==
    IF score <= 200 THEN "VERY_LOW"
    ELSE IF score <= 400 THEN "LOW"
    ELSE IF score <= 600 THEN "MODERATE"
    ELSE IF score <= 800 THEN "HIGH"
    ELSE "VERY_HIGH"

----------------------------------------------------------------------------
(* BaseDetector.createFinding.  code_snippet and machine_reason are text   *)
(* derived from the same arguments and are left out of the record.         *)

\* a finding whose weight is set from the call site
createFinding_adhoc(type, lineNumber, functionName, modifierName) ==
    [type          |-> type,
     severity      |-> RISK_WEIGHTS[type].severity,
     weight        |-> IF modifierName = "<undefined>" THEN RISK_WEIGHTS[type].weight
                       ELSE RISK_WEIGHTS[type].weight + 50,
     line_number   |-> lineNumber,
     function_name |-> functionName,
     modifier_name |-> modifierName]

createFinding(type, lineNumber, functionName, modifierName) ==
    LET config == RISK_WEIGHTS[type] IN
    [type          |-> type,
     severity      |-> config.severity,
     weight        |-> config.weight,
     line_number   |-> lineNumber,
     function_name |-> functionName,
     modifier_name |-> modifierName]

----------------------------------------------------------------------------
(* ScoringAlgorithmService *)

Min(a, b) == IF a <= b THEN a ELSE b
Max(a, b) == IF a >= b THEN a ELSE b

\* Math.round(num / den) for den > 0: floor(num / den + 1/2)
RoundDiv(num, den) == (2 * num + den) \div (2 * den)

RECURSIVE SumWeights(_)
SumWeights(findings) ==
    IF findings = <<>> THEN 0
    ELSE Head(findings).weight + SumWeights(Tail(findings))

\* a score that starts from a base of 1.0
calculateRiskScore_base(findings) ==
    Min(1000, RoundDiv(SumWeights(findings) + 100, 10) * 10)

\* a score that counts each risk type once
calculateRiskScore_dedup(findings) ==
    LET first == [i \in 1..Len(findings) |->
                     IF \A k \in 1..(i - 1) : findings[k].type # findings[i].type
                     THEN findings[i]
                     ELSE [findings[i] EXCEPT !.weight = 0]]
    IN Min(1000, RoundDiv(SumWeights(first), 10) * 10)

\* a cap that wraps instead of saturating
calculateRiskScore_wrap(findings) ==
    LET totalWeight == SumWeights(findings) IN
    IF totalWeight > 1000 THEN totalWeight - 1000
    ELSE RoundDiv(totalWeight, 10) * 10

\* totalWeight is in hundredths: Math.round(totalWeight * 10) / 10 keeps
\* tenths, that is multiples of 10 hundredths
calculateRiskScore(findings) ==
    LET totalWeight == SumWeights(findings) IN
    Min(1000, RoundDiv(totalWeight, 10) * 10)

\* a confidence whose default covers the function count only and that counts
\* no pattern term
calculateConfidence_parsedOnly(totalFunctions, successfullyParsed, patternsChecked_, patternsMatched_) ==
    IF totalFunctions = 0 THEN 50
    ELSE RoundDiv(40 * successfullyParsed * Max(5, totalFunctions)
                    + 30 * Min(Max(5, totalFunctions), successfullyParsed) * totalFunctions,
                  totalFunctions * Max(5, totalFunctions))

\* confidence in hundredths
calculateConfidence(totalFunctions, successfullyParsed, patternsChecked_, patternsMatched_) ==
    IF totalFunctions = 0 \/ patternsChecked_ = 0 THEN 50
    ELSE
        LET m == Max(5, totalFunctions)
            \* confidence * 100 = num / den, with
            \*   parsingConfidence = successfullyParsed / totalFunctions
            \*   patternConfidence = patternsMatched / patternsChecked
            \*   astCompleteness   = min(m, successfullyParsed) / m
            den == totalFunctions * patternsChecked_ * m
            num == 40 * successfullyParsed * patternsChecked_ * m
                 + 30 * patternsMatched_ * totalFunctions * m
                 + 30 * Min(m, successfullyParsed) * totalFunctions * patternsChecked_
        IN RoundDiv(num, den)

buildResult(findings, metadata) ==
    LET riskScore == calculateRiskScore(findings)
        classification == classifyRiskScore(riskScore)
        confidence == calculateConfidence(metadata.total_functions,
                                          metadata.successfully_parsed,
                                          metadata.patterns_checked,
                                          metadata.patterns_matched)
    IN [findings       |-> findings,
        risk_score     |-> riskScore,
        classification |-> classification,
        confidence     |-> confidence,
        metadata       |-> metadata]

severityOrder(s) ==
    CASE s = "CRITICAL" -> 0
      [] s = "HIGH"     -> 1
      [] s = "MEDIUM"   -> 2
      [] s = "LOW"      -> 3

\* the comparator handed to Array.prototype.sort
compareSeverity(a, b) == severityOrder(a.severity) - severityOrder(b.severity)

\* Array.prototype.sort is stable (ECMAScript 2019; the project asks for
\* Node.js 18+): an element goes behind every element the comparator does
\* not place after it
RECURSIVE InsertStable(_, _)
InsertStable(x, s) ==
    IF s = <<>> THEN <<x>>
    ELSE IF compareSeverity(x, Head(s)) < 0 THEN <<x>> \o s
    ELSE <<Head(s)>> \o InsertStable(x, Tail(s))

RECURSIVE ArraySort(_)
ArraySort(s) ==
    IF s = <<>> THEN <<>>
    ELSE InsertStable(s[Len(s)], ArraySort(SubSeq(s, 1, Len(s) - 1)))

\* a sort that places an element in front of its equals
RECURSIVE InsertUnstable(_, _)
InsertUnstable(x, s) ==
    IF s = <<>> THEN <<x>>
    ELSE IF compareSeverity(x, Head(s)) <= 0 THEN <<x>> \o s
    ELSE <<Head(s)>> \o InsertUnstable(x, Tail(s))

RECURSIVE ArraySortUnstable(_)
ArraySortUnstable(s) ==
    IF s = <<>> THEN <<>>
    ELSE InsertUnstable(s[Len(s)], ArraySortUnstable(SubSeq(s, 1, Len(s) - 1)))

sortBySeverity_unstable(findings) ==
    [arg |-> findings, ret |-> ArraySortUnstable(findings)]

\* arg: the caller's array after the call; ret: the returned array.
\* [...findings] copies, so the caller's array is left as it was.
sortBySeverity(findings) ==
    [arg |-> findings, ret |-> ArraySort(findings)]

----------------------------------------------------------------------------
(* Source text.  A source is a header line, top-level declaration lines    *)
(* and function declarations; every declaration sits on lines of its own:  *)
(* the signature line, the body's statement lines, the closing brace.      *)

\* statement lines of function bodies
StmtMint     == "_mint(to, amount);"
StmtTransfer == "payable(owner).transfer(address(this).balance);"
StmtTxOrigin == "require(tx.origin == owner);"
StmtDelegate == "impl.delegatecall(data);"
StmtCall     == "target.call(data);"
StmtSetFee   == "fee = newFee;"
StmtDestruct == "selfdestruct(payable(owner));"
StmtSetMax   == "maxTxAmount = amount;"
StmtSupplyCheck    == "require(totalSupply() + amount <= limit);"
StmtOwnerCheck     == "require(msg.sender == owner, 'not owner');"
StmtBoolCall       == "(bool success, ) = target.call(data);"
StmtRequireSuccess == "require(success, 'call failed');"
StmtNoop           == "count = count + 1;"
StmtPause          == "paused = true;"

\* header lines
HeadEmpty    == ""
HeadProse    == "hello world"
HeadPragma   == "pragma solidity ^0.8.0;"
HeadContract == "CONTRACT Token {"
HeadPausable == "contract Vault is Pausable {"
\* the README sample up to its function declaration
HeadReadme   == "pragma solidity ^0.8.0; contract Test { address public owner; modifier onlyOwner() { require(msg.sender == owner); _; }"

\* top-level declaration lines
DeclMaxSupply == "uint256 public constant MAX_SUPPLY = 1000000;"
DeclMaxTx     == "uint256 public maxTxAmount;"
DeclBlacklist == "mapping(address => bool) public blacklist;"
DeclWhitelist == "mapping(address => bool) public whitelist;"

\* the regular expressions the detectors test, by name
ReCall         == "/\\.call\\{|\\.call\\(|\\.staticcall\\(|\\.callcode\\(/"
ReSuccessCheck == "/require\\(.*success|if\\s*\\(\\s*success|success\\s*==\\s*true/"
ReBoolSuccess  == "/\\(bool\\s+success/"
ReBalances     == "/balances?\\[.*\\]\\s*=/"
ReUBalances    == "/_balances?\\[.*\\]\\s*=/"

\* String.toLowerCase on the texts of the model
toLowerCase(t) ==
    CASE t = "CONTRACT Token {"             -> "contract token {"
      [] t = "contract Vault is Pausable {" -> "contract vault is pausable {"
      [] t = DeclMaxSupply                  -> "uint256 public constant max_supply = 1000000;"
      [] t = DeclMaxTx                      -> "uint256 public maxtxamount;"
      [] t = StmtSetMax                     -> "maxtxamount = amount;"
      [] t = StmtSetFee                     -> "fee = newfee;"
      [] t = HeadReadme                     -> "pragma solidity ^0.8.0; contract test { address public owner; modifier onlyowner() { require(msg.sender == owner); _; }"
      [] t = "MAX_SUPPLY"                   -> "max_supply"
      [] t = "CAP"                          -> "cap"
      [] t = "TOTAL_SUPPLY"                 -> "total_supply"
      [] t = "maxSupply"                    -> "maxsupply"
      [] t = "maxTxAmount"                  -> "maxtxamount"
      [] t = "_maxTxAmount"                 -> "_maxtxamount"
      [] t = "maxTransactionAmount"         -> "maxtransactionamount"
      [] t = "maxTx"                        -> "maxtx"
      [] t = "setFee"                       -> "setfee"
      [] t = "addToBlacklist"               -> "addtoblacklist"
      [] t = "setBlacklist"                 -> "setblacklist"
      [] t = "addToWhitelist"               -> "addtowhitelist"
      [] t = "setWhitelist"                 -> "setwhitelist"
      [] t = "claimAndWithdraw"             -> "claimandwithdraw"
      [] t = "setTaxAndSetFee"              -> "settaxandsetfee"
      [] t = "forwardAll"                   -> "forwardall"
      [] t = "setMaxTxAmount"               -> "setmaxtxamount"
      [] t = "onlyOwner"                    -> "onlyowner"
      [] t = "onlyRole"                     -> "onlyrole"
      [] t = "onlyMinter"                   -> "onlyminter"
      [] t = "whenNotPaused"                -> "whennotpaused"
      [] t = "transferOwnership"            -> "transferownership"
      [] t = "_authorizeUpgrade"            -> "_authorizeupgrade"
      [] t = "upgradeTo"                    -> "upgradeto"
      [] OTHER                              -> t

\* the searched strings and expressions that occur in a text (case matters)
TextFeatures(t) ==
    CASE t = StmtTransfer -> {"payable", "owner", ".transfer(", "transfer"}
      [] t = StmtTxOrigin -> {"require", "tx.origin", "owner"}
      [] t = StmtDelegate -> {"delegatecall", ".delegatecall("}
      [] t = StmtCall     -> {ReCall}
      [] t = StmtDestruct -> {"selfdestruct", "payable", "owner"}
      [] t = StmtMint     -> {"mint"}
      [] t = StmtSupplyCheck    -> {"require", "totalSupply"}
      [] t = StmtOwnerCheck     -> {"require", "require(msg.sender == owner",
                                    "msg.sender", "owner", "send"}
      [] t = StmtBoolCall       -> {ReCall, ReBoolSuccess}
      [] t = StmtRequireSuccess -> {"require", ReSuccessCheck}
      [] t = "pragma solidity ^0.8.0;"      -> {"pragma solidity"}
      [] t = HeadReadme                     -> {"pragma solidity", "contract ", "owner", "onlyOwner",
                                                "require", "require(msg.sender == owner",
                                                "msg.sender", "send"}
      [] t = "pragma solidity ^0.8.0; contract test { address public owner; modifier onlyowner() { require(msg.sender == owner); _; }"
                                            -> {"pragma solidity", "contract ", "owner", "onlyowner",
                                                "require", "require(msg.sender == owner",
                                                "msg.sender", "send"}
      [] t = "contract token {"             -> {"contract "}
      [] t = "contract Vault is Pausable {" -> {"contract ", "Pausable", "is Pausable"}
      [] t = "contract vault is pausable {" -> {"contract "}
      [] t = DeclBlacklist                  -> {"mapping", "blacklist"}
      [] t = DeclWhitelist                  -> {"mapping", "whitelist"}
      [] t = "addToBlacklist"               -> {"add", "Blacklist"}
      [] t = "addtoblacklist"               -> {"add", "blacklist"}
      [] t = "setBlacklist"                 -> {"set", "Blacklist"}
      [] t = "setblacklist"                 -> {"set", "blacklist"}
      [] t = "addToWhitelist"               -> {"add", "Whitelist"}
      [] t = "addtowhitelist"               -> {"add", "whitelist"}
      [] t = "setWhitelist"                 -> {"set", "Whitelist"}
      [] t = "setwhitelist"                 -> {"set", "whitelist"}
      [] t = "claimAndWithdraw"             -> {"claim", "Withdraw"}
      [] t = "claimandwithdraw"             -> {"claim", "withdraw"}
      [] t = "setTaxAndSetFee"              -> {"set", "setTax", "SetFee"}
      [] t = "settaxandsetfee"              -> {"set", "settax", "setfee"}
      [] t = "receive"                      -> {"receive"}
      [] t = "fallback"                     -> {"fallback"}
      [] t = "mint"                         -> {"mint"}
      [] t = "withdraw"                     -> {"withdraw"}
      [] t = "destroy"                      -> {}
      [] t = "execute"                      -> {}
      [] t = "setfee"                       -> {"setfee", "set"}
      [] t = "setmaxtxamount"               -> {"setmax.*amount", "setmaxtx", "set"}
      [] t = "onlyowner"                    -> {"onlyowner"}
      [] OTHER                              -> {}

includes(t, needle) == needle \in TextFeatures(t)

MintFn     == [name |-> "mint", visibility |-> "public",
               modifiers |-> <<"onlyOwner">>, body |-> <<StmtMint>>]
WithdrawFn == [name |-> "withdraw", visibility |-> "external",
               modifiers |-> <<"onlyOwner">>, body |-> <<StmtTransfer>>]
ExecuteFn  == [name |-> "execute", visibility |-> "",
               modifiers |-> <<>>, body |-> <<StmtTxOrigin, StmtDelegate, StmtCall>>]
SetFeeFn   == [name |-> "setFee", visibility |-> "external",
               modifiers |-> <<"onlyOwner">>, body |-> <<StmtSetFee>>]
DestroyFn  == [name |-> "destroy", visibility |-> "public",
               modifiers |-> <<"onlyOwner">>, body |-> <<StmtDestruct>>]
SetMaxTxFn == [name |-> "setMaxTxAmount", visibility |-> "external",
               modifiers |-> <<"onlyOwner">>, body |-> <<StmtSetMax>>]

\* the function of the README sample: owner-gated, empty body
ReadmeMintFn  == [name |-> "mint", visibility |-> "public",
                  modifiers |-> <<"onlyOwner">>, body |-> <<>>]
OpenMintFn    == [name |-> "mint", visibility |-> "public",
                  modifiers |-> <<>>, body |-> <<StmtMint>>]
CheckedMintFn == [name |-> "mint", visibility |-> "public",
                  modifiers |-> <<>>, body |-> <<StmtSupplyCheck, StmtMint>>]
OriginMintFn  == [name |-> "mint", visibility |-> "public",
                  modifiers |-> <<>>, body |-> <<StmtTxOrigin, StmtMint>>]
PauseFn       == [name |-> "pause", visibility |-> "external",
                  modifiers |-> <<"onlyOwner">>, body |-> <<StmtPause>>]
GuardedFn     == [name |-> "configure", visibility |-> "external",
                  modifiers |-> <<>>, body |-> <<StmtOwnerCheck, StmtNoop>>]

\* a function of the given body lines that forwards calls
CallFn(body) == [name |-> "forward", visibility |-> "external",
                 modifiers |-> <<>>, body |-> body]

\* functions named receive and fallback, the second one forwarding by
\* delegatecall
ReceiveFn  == [name |-> "receive", visibility |-> "external",
               modifiers |-> <<>>, body |-> <<StmtNoop>>]
FallbackFn == [name |-> "fallback", visibility |-> "external",
               modifiers |-> <<>>, body |-> <<StmtDelegate>>]

\* add/set functions of the two list families, open and owner-gated
AddBlacklistFn == [name |-> "addToBlacklist", visibility |-> "external",
                   modifiers |-> <<>>, body |-> <<StmtNoop>>]
SetBlacklistFn == [name |-> "setBlacklist", visibility |-> "external",
                   modifiers |-> <<"onlyOwner">>, body |-> <<StmtNoop>>]
AddWhitelistFn == [name |-> "addToWhitelist", visibility |-> "external",
                   modifiers |-> <<>>, body |-> <<StmtNoop>>]
SetWhitelistFn == [name |-> "setWhitelist", visibility |-> "external",
                   modifiers |-> <<"onlyOwner">>, body |-> <<StmtNoop>>]

\* a second function with selfdestruct
KillFn == [name |-> "kill", visibility |-> "external",
           modifiers |-> <<"onlyOwner">>, body |-> <<StmtNoop, StmtDestruct>>]

\* names that match two patterns of one detector
ClaimWithdrawFn == [name |-> "claimAndWithdraw", visibility |-> "external",
                    modifiers |-> <<"onlyOwner">>, body |-> <<StmtTransfer>>]
SetTaxFeeFn     == [name |-> "setTaxAndSetFee", visibility |-> "external",
                    modifiers |-> <<"onlyOwner">>, body |-> <<StmtSetFee>>]

\* a function with low-level calls whose signature takes several lines
LongSigCallFn(body) == [name |-> "forwardAll", visibility |-> "external",
                        modifiers |-> <<>>, body |-> body, sigBreaks |-> 2]

\* the source of the README's sample request
ReadmeCode == [head |-> HeadReadme, decls |-> <<>>, funcs |-> <<ReadmeMintFn>>]

\* the empty string
EmptyCode == [head |-> HeadEmpty, decls |-> <<>>, funcs |-> <<>>]

\* the text of a signature line after the first: the end of the parameter
\* list, or the opening brace
SigRest == ") external {"

\* number of line breaks between the function keyword and the opening brace
sigBreaks(f) == IF "sigBreaks" \in DOMAIN f THEN f.sigBreaks ELSE 0

\* all the text of a source, line by line
CodeLines(code) ==
    LET FnLines(f) ==
            <<[kind |-> "sig", text |-> f.name, mods |-> f.modifiers]>>
            \o [i \in 1..sigBreaks(f) |-> [kind |-> "stmt", text |-> SigRest, mods |-> <<>>]]
            \o [i \in 1..Len(f.body) |-> [kind |-> "stmt", text |-> f.body[i], mods |-> <<>>]]
            \o <<[kind |-> "stmt", text |-> "}", mods |-> <<>>]>>
        Flat[i \in 0..Len(code.funcs)] ==
            IF i = 0 THEN <<>> ELSE Flat[i - 1] \o FnLines(code.funcs[i])
    IN <<[kind |-> "stmt", text |-> code.head, mods |-> <<>>]>>
       \o [i \in 1..Len(code.decls) |-> [kind |-> "stmt", text |-> code.decls[i], mods |-> <<>>]]
       \o Flat[Len(code.funcs)]

\* the pieces of text on a line
LineTexts(line) ==
    {line.text} \cup {line.mods[i] : i \in 1..Len(line.mods)}

\* line.includes(needle)
lineIncludes(line, needle) == \E t \in LineTexts(line) : includes(t, needle)

\* code.includes(needle)
codeIncludes(code, needle) ==
    LET ls == CodeLines(code) IN \E i \in 1..Len(ls) : lineIncludes(ls[i], needle)

----------------------------------------------------------------------------
(* ASTParserService *)

solidityKeywords == {"pragma solidity", "contract ", "interface ", "library "}

isValidSolidity(code) ==
    LET ls == CodeLines(code) IN
    \E keyword \in solidityKeywords :
        \E i \in 1..Len(ls) : \E t \in LineTexts(ls[i]) :
            includes(toLowerCase(t), toLowerCase(keyword))

\* extractVariables: what the two declaration patterns capture on a line
VariableOf(t) ==
    CASE t = DeclMaxSupply -> <<[name |-> "MAX_SUPPLY", type |-> "uint256",
                                 visibility |-> "public", isConstant |-> TRUE]>>
      [] t = DeclMaxTx     -> <<[name |-> "maxTxAmount", type |-> "uint256",
                                 visibility |-> "public", isConstant |-> FALSE]>>
      [] t = DeclBlacklist -> <<[name |-> "blacklist", type |-> "mapping",
                                 visibility |-> "public", isConstant |-> FALSE]>>
      [] t = DeclWhitelist -> <<[name |-> "whitelist", type |-> "mapping",
                                 visibility |-> "public", isConstant |-> FALSE]>>
      [] OTHER             -> <<>>

RECURSIVE extractVariables(_, _)
extractVariables(ls, i) ==
    IF i > Len(ls) THEN <<>>
    ELSE LET v == IF ls[i].kind = "stmt" THEN VariableOf(ls[i].text) ELSE <<>>
         IN [k \in 1..Len(v) |-> [name |-> v[k].name, type |-> v[k].type,
                                  visibility |-> v[k].visibility,
                                  lineNumber |-> i, isConstant |-> v[k].isConstant]]
            \o extractVariables(ls, i + 1)

\* extractFunctions: one FunctionInfo per declaration, in source order.
\* startLine is the line of the function keyword (of match.index), endLine
\* the closing brace's; the body starts after the opening brace.
extractFunctions(code) ==
    LET first == 1 + Len(code.decls)
        Start[i \in 1..Len(code.funcs)] ==
            IF i = 1 THEN first + 1
            ELSE Start[i - 1] + sigBreaks(code.funcs[i - 1])
                    + Len(code.funcs[i - 1].body) + 2
    IN [i \in 1..Len(code.funcs) |->
            LET f == code.funcs[i] IN
            [name       |-> f.name,
             startLine  |-> Start[i],
             endLine    |-> Start[i] + sigBreaks(f) + Len(f.body) + 1,
             visibility |-> IF f.visibility = "" THEN "public" ELSE f.visibility,
             modifiers  |-> f.modifiers,
             body       |-> f.body]]

parse(code) ==
    LET lines == CodeLines(code) IN
    [code      |-> code,
     lines     |-> lines,
     functions |-> extractFunctions(code),
     modifiers |-> <<>>,
     variables |-> extractVariables(lines, 1)]

----------------------------------------------------------------------------
(* BaseDetector helpers *)

\* an absent optional argument (functionName?, modifierName?)
Undefined == "<undefined>"

\* Array.prototype.join(', ')
RECURSIVE join(_)
join(names) ==
    IF names = <<>> THEN ""
    ELSE IF Len(names) = 1 THEN names[1]
    ELSE names[1] \o ", " \o join(Tail(names))

hasModifier(func, modifierName) ==
    \E i \in 1..Len(func.modifiers) :
        includes(toLowerCase(func.modifiers[i]), toLowerCase(modifierName))

\* func.body.includes(needle), pattern.test(func.body)
bodyIncludes(func, needle) ==
    \E i \in 1..Len(func.body) : includes(func.body[i], needle)

\* findFunctionsMatching with a case-insensitive pattern, given in lower case
findFunctionsMatching(context, pattern) ==
    LET Matches(f) == includes(toLowerCase(f.name), pattern)
    IN SelectSeq(context.functions, Matches)

\* findFunction: the functions of that name, the first one is the result
findFunction(context, name) ==
    LET Same(f) == toLowerCase(f.name) = toLowerCase(name)
    IN SelectSeq(context.functions, Same)

hasVariable(context, name) ==
    \E i \in 1..Len(context.variables) :
        toLowerCase(context.variables[i].name) = toLowerCase(name)

hasConstant(context, name) ==
    \E i \in 1..Len(context.variables) :
        /\ toLowerCase(context.variables[i].name) = toLowerCase(name)
        /\ context.variables[i].isConstant

\* lines.indexOf(line) + 1: the first line equal to it
indexOf(lines, line) ==
    IF \E j \in 1..Len(lines) : lines[j] = line
    THEN CHOOSE j \in 1..Len(lines) :
            lines[j] = line /\ \A k \in 1..(j - 1) : lines[k] # line
    ELSE 0

\* the line number the three construct detectors report for func:
\* lines.findIndex(line => line.includes(needle)
\*     && lines.indexOf(line) >= func.startLine - 1
\*     && lines.indexOf(line) <= func.endLine - 1) + 1, 0 when there is none
findConstructLine(context, func, needle) ==
    LET lines == context.lines
        Hit(i) == /\ lineIncludes(lines[i], needle)
                  /\ indexOf(lines, lines[i]) >= func.startLine
                  /\ indexOf(lines, lines[i]) <= func.endLine
    IN IF \E i \in 1..Len(lines) : Hit(i)
       THEN CHOOSE i \in 1..Len(lines) : Hit(i) /\ \A k \in 1..(i - 1) : ~Hit(k)
       ELSE 0

\* concatenation of the finding lists made for the elements of a sequence
RECURSIVE Concat(_)
Concat(lists) ==
    IF lists = <<>> THEN <<>> ELSE Head(lists) \o Concat(Tail(lists))

----------------------------------------------------------------------------
(* MintingDetector *)

\* a check that reports only functions that carry a modifier
checkUnlimitedMinting_gated(context, func) ==
    IF func.modifiers # <<>>
    THEN <<createFinding("UNLIMITED_MINTING", func.startLine, func.name, Undefined)>>
    ELSE <<>>

checkUnlimitedMinting(context, func) ==
    LET hasSupplyCap == \/ hasConstant(context, "MAX_SUPPLY")
                        \/ hasConstant(context, "CAP")
                        \/ hasConstant(context, "TOTAL_SUPPLY")
                        \/ hasVariable(context, "maxSupply")
                        \/ hasVariable(context, "cap")
        hasSupplyCheck == /\ bodyIncludes(func, "totalSupply")
                          /\ (bodyIncludes(func, "require") \/ bodyIncludes(func, "if"))
    IN IF ~hasSupplyCap /\ ~hasSupplyCheck
       THEN <<createFinding("UNLIMITED_MINTING", func.startLine, func.name, Undefined)>>
       ELSE <<>>

\* an owner test that looks at the body only
checkOwnerRestrictedMinting_bodyOnly(context, func) ==
    IF /\ bodyIncludes(func, "msg.sender")
       /\ (bodyIncludes(func, "owner") \/ bodyIncludes(func, "_owner"))
    THEN <<createFinding("OWNER_RESTRICTED_MINTING", func.startLine, func.name,
                         join(func.modifiers))>>
    ELSE <<>>

checkOwnerRestrictedMinting(context, func) ==
    LET hasOwnerModifier == \/ hasModifier(func, "onlyOwner")
                            \/ hasModifier(func, "onlyRole")
                            \/ hasModifier(func, "onlyMinter")
        hasOwnerCheck == /\ bodyIncludes(func, "msg.sender")
                         /\ (bodyIncludes(func, "owner") \/ bodyIncludes(func, "_owner"))
    IN IF hasOwnerModifier \/ hasOwnerCheck
       THEN <<createFinding("OWNER_RESTRICTED_MINTING", func.startLine, func.name,
                            join(func.modifiers))>>
       ELSE <<>>

MintingDetector_detect(context) ==
    LET mintFunctions == findFunctionsMatching(context, "mint")
        PerFunction(func) == checkUnlimitedMinting(context, func)
                             \o checkOwnerRestrictedMinting(context, func)
    IN LET over == mintFunctions IN Concat([k \in 1..Len(over) |-> PerFunction(over[k])])

----------------------------------------------------------------------------
(* FundControlDetector *)

detectWithdrawalFunctions(context) ==
    LET withdrawPatterns == <<"withdraw", "claim", "rescue", "recover", "sweep">>
        PerFunction(func) ==
            LET transfersEther == \/ bodyIncludes(func, ".transfer(")
                                  \/ bodyIncludes(func, ".send(")
                                  \/ bodyIncludes(func, ".call{value:")
                                  \/ bodyIncludes(func, "payable")
                transfersTokens == \/ bodyIncludes(func, ".transfer(")
                                   \/ bodyIncludes(func, "_transfer(")
                                   \/ bodyIncludes(func, "safeTransfer")
            IN IF (transfersEther \/ transfersTokens) /\ hasModifier(func, "onlyOwner")
               THEN <<createFinding("WITHDRAW_FUNCTION", func.startLine, func.name,
                                    join(func.modifiers))>>
               ELSE <<>>
        PerPattern(pattern) == LET over == findFunctionsMatching(context, pattern) IN Concat([k \in 1..Len(over) |-> PerFunction(over[k])])
    IN LET over == withdrawPatterns IN Concat([k \in 1..Len(over) |-> PerPattern(over[k])])

detectEmergencyWithdrawal(context) ==
    LET PerFunction(func) ==
            LET transfersFunds == \/ bodyIncludes(func, "transfer")
                                  \/ bodyIncludes(func, "send")
                                  \/ bodyIncludes(func, "call{value")
            IN IF transfersFunds
               THEN <<createFinding("EMERGENCY_WITHDRAWAL", func.startLine, func.name,
                                    join(func.modifiers))>>
               ELSE <<>>
    IN LET over == findFunctionsMatching(context, "emergency") IN Concat([k \in 1..Len(over) |-> PerFunction(over[k])])

detectBalanceManipulation(context) ==
    LET Modifies(func) ==
            LET hasBalanceMapping == \/ bodyIncludes(func, ReBalances)
                                     \/ bodyIncludes(func, ReUBalances)
                isConstructor == func.name = "constructor"
                isTransferFunction == includes(toLowerCase(func.name), "transfer")
            IN hasBalanceMapping /\ ~isConstructor /\ ~isTransferFunction
        PerFunction(func) ==
            IF hasModifier(func, "onlyOwner") \/ hasModifier(func, "onlyRole")
            THEN <<createFinding("BALANCE_MANIPULATION", func.startLine, func.name,
                                 join(func.modifiers))>>
            ELSE <<>>
    IN LET over == SelectSeq(context.functions, Modifies) IN Concat([k \in 1..Len(over) |-> PerFunction(over[k])])

FundControlDetector_detect(context) ==
    detectWithdrawalFunctions(context)
    \o detectEmergencyWithdrawal(context)
    \o detectBalanceManipulation(context)

----------------------------------------------------------------------------
(* OwnershipDetector *)

\* a threshold of more than 3 owner-only functions
detectCentralizedOwnership_strict(context) ==
    LET OwnerOnly(func) == \/ hasModifier(func, "onlyOwner")
                           \/ hasModifier(func, "onlyRole")
                           \/ bodyIncludes(func, "require(msg.sender == owner")
        onlyOwnerFunctions == SelectSeq(context.functions, OwnerOnly)
    IN IF Len(onlyOwnerFunctions) > 3
       THEN <<createFinding("CENTRALIZED_OWNERSHIP", onlyOwnerFunctions[1].startLine,
                            join([i \in 1..Len(onlyOwnerFunctions) |->
                                     onlyOwnerFunctions[i].name]),
                            Undefined)>>
       ELSE <<>>

detectCentralizedOwnership(context) ==
    LET OwnerOnly(func) == \/ hasModifier(func, "onlyOwner")
                           \/ hasModifier(func, "onlyRole")
                           \/ bodyIncludes(func, "require(msg.sender == owner")
        onlyOwnerFunctions == SelectSeq(context.functions, OwnerOnly)
    IN IF Len(onlyOwnerFunctions) >= 3
       THEN LET functionNames ==
                    join([i \in 1..Len(onlyOwnerFunctions) |-> onlyOwnerFunctions[i].name])
                firstFunction == onlyOwnerFunctions[1]
            IN <<createFinding("CENTRALIZED_OWNERSHIP", firstFunction.startLine,
                               functionNames, Undefined)>>
       ELSE <<>>

detectPausableContract(context) ==
    LET pauseFunction == findFunction(context, "pause")
        unpauseFunction == findFunction(context, "unpause")
        hasPausableInheritance == \/ codeIncludes(context.code, "Pausable")
                                  \/ codeIncludes(context.code, "is Pausable")
        WhenNotPaused(f) == hasModifier(f, "whenNotPaused")
        hasWhenNotPaused ==
            \/ \E i \in 1..Len(context.modifiers) : context.modifiers[i].name = "whenNotPaused"
            \/ SelectSeq(context.functions, WhenNotPaused) # <<>>
    IN IF \/ pauseFunction # <<>> \/ unpauseFunction # <<>>
          \/ hasPausableInheritance \/ hasWhenNotPaused
       THEN LET line == IF pauseFunction # <<>> THEN pauseFunction[1].startLine
                        ELSE IF unpauseFunction # <<>> THEN unpauseFunction[1].startLine
                        ELSE 1
                funcName == IF pauseFunction # <<>> THEN pauseFunction[1].name
                            ELSE IF unpauseFunction # <<>> THEN unpauseFunction[1].name
                            ELSE "pause mechanism"
            IN <<createFinding("PAUSABLE_CONTRACT", line, funcName, Undefined)>>
       ELSE <<>>

detectOwnershipTransfer(context) ==
    LET transferFunction == findFunction(context, "transferOwnership")
                            \o findFunctionsMatching(context, "transferownership")
    IN IF transferFunction # <<>>
       THEN LET has2StepTransfer == \/ codeIncludes(context.code, "acceptOwnership")
                                    \/ codeIncludes(context.code, "claimOwnership")
            IN IF ~has2StepTransfer
               THEN <<createFinding("OWNERSHIP_TRANSFER", transferFunction[1].startLine,
                                    transferFunction[1].name, Undefined)>>
               ELSE <<>>
       ELSE <<>>

OwnershipDetector_detect(context) ==
    detectCentralizedOwnership(context)
    \o detectPausableContract(context)
    \o detectOwnershipTransfer(context)

----------------------------------------------------------------------------
(* UpgradeDetector *)

detectDelegatecall(context) ==
    LET Uses(func) == bodyIncludes(func, "delegatecall")
                      \/ bodyIncludes(func, ".delegatecall(")
        PerFunction(func) ==
            <<createFinding("DELEGATECALL_USAGE",
                            findConstructLine(context, func, "delegatecall"),
                            func.name, Undefined)>>
    IN LET over == SelectSeq(context.functions, Uses) IN Concat([k \in 1..Len(over) |-> PerFunction(over[k])])

detectUUPSProxy(context) ==
    LET authorizeUpgrade == findFunction(context, "_authorizeUpgrade")
                            \o findFunctionsMatching(context, "_authorizeupgrade")
        hasUUPSInheritance == \/ codeIncludes(context.code, "UUPSUpgradeable")
                              \/ codeIncludes(context.code, "is UUPSUpgradeable")
    IN IF authorizeUpgrade # <<>> \/ hasUUPSInheritance
       THEN LET line == IF authorizeUpgrade # <<>> THEN authorizeUpgrade[1].startLine ELSE 1
                name == IF authorizeUpgrade # <<>> THEN authorizeUpgrade[1].name
                        ELSE "UUPS pattern"
            IN <<createFinding("UUPS_PROXY", line, name, Undefined)>>
       ELSE <<>>

detectTransparentProxy(context) ==
    LET hasTransparentInheritance ==
            \/ codeIncludes(context.code, "TransparentUpgradeableProxy")
            \/ codeIncludes(context.code, "is TransparentUpgradeableProxy")
        upgradeToFunction == findFunction(context, "upgradeTo")
                             \o findFunctionsMatching(context, "upgradeto")
        hasImplementation ==
            \/ codeIncludes(context.code, "_implementation")
            \/ \E i \in 1..Len(context.functions) :
                    context.functions[i].name = "implementation"
        IsFallback(f) == f.name = "fallback" \/ f.name = "receive"
        fallbackFunction == SelectSeq(context.functions, IsFallback)
        hasFallbackDelegatecall ==
            fallbackFunction # <<>> /\ bodyIncludes(fallbackFunction[1], "delegatecall")
    IN IF \/ hasTransparentInheritance
          \/ (upgradeToFunction # <<>> /\ hasImplementation)
          \/ hasFallbackDelegatecall
       THEN LET line == IF upgradeToFunction # <<>> THEN upgradeToFunction[1].startLine ELSE 1
                name == IF upgradeToFunction # <<>> THEN upgradeToFunction[1].name
                        ELSE "Transparent proxy"
            IN <<createFinding("TRANSPARENT_PROXY", line, name, Undefined)>>
       ELSE <<>>

UpgradeDetector_detect(context) ==
    detectDelegatecall(context)
    \o detectUUPSProxy(context)
    \o detectTransparentProxy(context)

----------------------------------------------------------------------------
(* DangerousFunctionsDetector *)

\* a detector that reports every function containing selfdestruct
detectSelfdestruct_each(context) ==
    LET Has(func) == bodyIncludes(func, "selfdestruct")
        withSelfdestruct == SelectSeq(context.functions, Has)
    IN [k \in 1..Len(withSelfdestruct) |->
            createFinding("SELFDESTRUCT",
                          findConstructLine(context, withSelfdestruct[k], "selfdestruct"),
                          withSelfdestruct[k].name, Undefined)]

\* a detector that names the last function containing selfdestruct
detectSelfdestruct_last(context) ==
    LET Has(func) == bodyIncludes(func, "selfdestruct")
        withSelfdestruct == SelectSeq(context.functions, Has)
    IN IF withSelfdestruct # <<>>
       THEN <<createFinding("SELFDESTRUCT",
                            findConstructLine(context, withSelfdestruct[Len(withSelfdestruct)],
                                              "selfdestruct"),
                            withSelfdestruct[Len(withSelfdestruct)].name, Undefined)>>
       ELSE <<>>

detectSelfdestruct(context) ==
    IF ~codeIncludes(context.code, "selfdestruct") THEN <<>>
    ELSE LET Has(func) == bodyIncludes(func, "selfdestruct")
             functionWithSelfdestruct == SelectSeq(context.functions, Has)
         IN IF functionWithSelfdestruct # <<>>
            THEN <<createFinding("SELFDESTRUCT",
                                 findConstructLine(context, functionWithSelfdestruct[1],
                                                   "selfdestruct"),
                                 functionWithSelfdestruct[1].name, Undefined)>>
            ELSE <<>>

\* a detector that reports the first function using tx.origin only
detectTxOrigin_first(context) ==
    LET Uses(func) == bodyIncludes(func, "tx.origin")
        withTxOrigin == SelectSeq(context.functions, Uses)
    IN IF withTxOrigin # <<>>
       THEN <<createFinding("TX_ORIGIN", findConstructLine(context, withTxOrigin[1], "tx.origin"),
                            withTxOrigin[1].name, Undefined)>>
       ELSE <<>>

detectTxOrigin(context) ==
    IF ~codeIncludes(context.code, "tx.origin") THEN <<>>
    ELSE LET Uses(func) == bodyIncludes(func, "tx.origin")
             PerFunction(func) ==
                <<createFinding("TX_ORIGIN", findConstructLine(context, func, "tx.origin"),
                                func.name, Undefined)>>
         IN LET over == SelectSeq(context.functions, Uses) IN Concat([k \in 1..Len(over) |-> PerFunction(over[k])])

\* func.body.split('\n'): the rest of the signature line after the opening
\* brace, the statement lines, and the text in front of the closing brace
bodySplit(func) == <<"">> \o func.body \o <<"">>

\* a context window of the call line and the one line after it
firstUncheckedCall_narrow(lines) ==
    LET Unchecked(i) ==
            /\ includes(lines[i + 1], ReCall)
            /\ ~\E k \in (i + 1)..Min(i + 2, Len(lines)) : includes(lines[k], ReSuccessCheck)
            /\ ~includes(lines[i + 1], ReBoolSuccess)
    IN IF \E i \in 0..(Len(lines) - 1) : Unchecked(i)
       THEN CHOOSE i \in 0..(Len(lines) - 1) :
                Unchecked(i) /\ \A k \in 0..(i - 1) : ~Unchecked(k)
       ELSE 0 - 1

\* the index into bodySplit (from 0) of the first call line that is not
\* checked, -1 when every call line is checked
firstUncheckedCall(lines) ==
    LET Unchecked(i) ==
            /\ includes(lines[i + 1], ReCall)
            /\ LET last == Min(i + 3, Len(lines))
                   isChecked ==
                       \/ \E k \in (i + 1)..last : includes(lines[k], ReSuccessCheck)
                       \/ includes(lines[i + 1], ReBoolSuccess)
               IN ~isChecked
    IN IF \E i \in 0..(Len(lines) - 1) : Unchecked(i)
       THEN CHOOSE i \in 0..(Len(lines) - 1) :
                Unchecked(i) /\ \A k \in 0..(i - 1) : ~Unchecked(k)
       ELSE 0 - 1

detectUncheckedCalls(context) ==
    LET HasCall(func) == bodyIncludes(func, ReCall)
        PerFunction(func) ==
            LET i == firstUncheckedCall(bodySplit(func))
                uncheckedLine == IF i >= 0 THEN func.startLine + i ELSE 0 - 1
            IN IF i >= 0 /\ uncheckedLine # 0 - 1
               THEN <<createFinding("UNCHECKED_CALL", uncheckedLine, func.name, Undefined)>>
               ELSE <<>>
    IN LET over == SelectSeq(context.functions, HasCall) IN Concat([k \in 1..Len(over) |-> PerFunction(over[k])])

DangerousFunctionsDetector_detect(context) ==
    detectSelfdestruct(context)
    \o detectTxOrigin(context)
    \o detectUncheckedCalls(context)

----------------------------------------------------------------------------
(* EconomicDetector *)

detectAdjustableFees(context) ==
    LET feePatterns == <<"setfee", "settax", "updatefee", "changefee", "setrate">>
        PerFunction(func) ==
            IF hasModifier(func, "onlyOwner") \/ hasModifier(func, "onlyRole")
            THEN <<createFinding("ADJUSTABLE_FEES", func.startLine, func.name,
                                 join(func.modifiers))>>
            ELSE <<>>
        PerPattern(pattern) == LET over == findFunctionsMatching(context, pattern) IN Concat([k \in 1..Len(over) |-> PerFunction(over[k])])
    IN LET over == feePatterns IN Concat([k \in 1..Len(over) |-> PerPattern(over[k])])

\* detectBlacklistModification and detectWhitelistModification differ in
\* the word and the risk type only
detectListModification(context, word, type) ==
    LET hasList == \/ hasVariable(context, word)
                   \/ hasVariable(context, word \o "ed")
                   \/ hasVariable(context, "_" \o word)
                   \/ (codeIncludes(context.code, "mapping") /\ codeIncludes(context.code, word))
    IN IF ~hasList THEN <<>>
       ELSE LET listFunctions == findFunctionsMatching(context, word)
                AddOrSet(f) == \/ includes(toLowerCase(f.name), "add")
                               \/ includes(toLowerCase(f.name), "set")
                addFunction == SelectSeq(listFunctions, AddOrSet)
            IN IF addFunction # <<>> /\ hasModifier(addFunction[1], "onlyOwner")
               THEN <<createFinding(type, addFunction[1].startLine, addFunction[1].name,
                                    join(addFunction[1].modifiers))>>
               ELSE <<>>

detectBlacklistModification(context) ==
    detectListModification(context, "blacklist", "BLACKLIST_MODIFICATION")

detectWhitelistModification(context) ==
    detectListModification(context, "whitelist", "WHITELIST_MODIFICATION")

detectMaxTxLimit(context) ==
    LET hasMaxTx == \/ hasVariable(context, "maxTransactionAmount")
                    \/ hasVariable(context, "maxTxAmount")
                    \/ hasVariable(context, "_maxTxAmount")
                    \/ hasVariable(context, "maxTx")
    IN IF ~hasMaxTx THEN <<>>
       ELSE LET SetsMax(f) == \/ includes(toLowerCase(f.name), "setmax.*amount")
                              \/ includes(toLowerCase(f.name), "setmaxtx")
                setterFunctions == SelectSeq(context.functions, SetsMax)
            IN IF setterFunctions # <<>> /\ hasModifier(setterFunctions[1], "onlyOwner")
               THEN <<createFinding("MAX_TX_LIMIT", setterFunctions[1].startLine,
                                    setterFunctions[1].name,
                                    join(setterFunctions[1].modifiers))>>
               ELSE <<>>

EconomicDetector_detect(context) ==
    detectAdjustableFees(context)
    \o detectBlacklistModification(context)
    \o detectWhitelistModification(context)
    \o detectMaxTxLimit(context)

----------------------------------------------------------------------------
(* RiskEngineService *)

DetectorList ==
    <<"MintingDetector", "FundControlDetector", "OwnershipDetector",
      "UpgradeDetector", "DangerousFunctionsDetector", "EconomicDetector">>

DetectorNames == {DetectorList[i] : i \in 1..Len(DetectorList)}

\* detector.detect(context)
detect(detector, context) ==
    CASE detector = "MintingDetector"            -> MintingDetector_detect(context)
      [] detector = "FundControlDetector"        -> FundControlDetector_detect(context)
      [] detector = "OwnershipDetector"          -> OwnershipDetector_detect(context)
      [] detector = "UpgradeDetector"            -> UpgradeDetector_detect(context)
      [] detector = "DangerousFunctionsDetector" -> DangerousFunctionsDetector_detect(context)
      [] detector = "EconomicDetector"           -> EconomicDetector_detect(context)

getPatternCount(detectorName) ==
    CASE detectorName = "MintingDetector"            -> 2
      [] detectorName = "FundControlDetector"        -> 6
      [] detectorName = "OwnershipDetector"          -> 3
      [] detectorName = "UpgradeDetector"            -> 3
      [] detectorName = "DangerousFunctionsDetector" -> 3
      [] detectorName = "EconomicDetector"           -> 4
      [] OTHER                                       -> 1

\* a findings buffer that outlives the call
freshFindings_static(previous) == previous

\* const allFindings: RiskFinding[] = []  (previous: what the last call left)
freshFindings(previous) == <<>>

\* allFindings = findings
pushFindings_assign(buffer, findings) == findings

\* allFindings.push(...findings)
pushFindings(buffer, findings) == buffer \o findings

\* a catch block that raises again
onDetectorError_rethrow(st) == [st EXCEPT !.raised = TRUE]

\* catch (error) { console.error(...) }: the loop goes on
onDetectorError(st) == st

\* the rest of the try block: push the findings, count the patterns
recordFindings(detector, findings, st) ==
    [st EXCEPT !.allFindings = pushFindings(st.allFindings, findings),
               !.patternsChecked = st.patternsChecked + getPatternCount(detector),
               !.patternsMatched = st.patternsMatched + Len(findings)]

\* a detector that empties the function list it was handed
detectorLeaves_consuming(detector, context_) ==
    [context_ EXCEPT !.functions = <<>>]

\* the context as detect(context) leaves it, returning or raising: the
\* detectors and the BaseDetector helpers only read their argument
detectorLeaves(detector, context_) == context_

\* one turn of the loop over the detectors: the try block and its catch
tryDetector(detector, faultySet, st) ==
    IF detector \in faultySet
    THEN onDetectorError([st EXCEPT !.context = detectorLeaves(detector, st.context)])
    ELSE recordFindings(detector, detect(detector, st.context),
                        [st EXCEPT !.context = detectorLeaves(detector, st.context)])

RECURSIVE runDetectors(_, _, _)
runDetectors(dets, faultySet, st) ==
    IF dets = <<>> \/ st.raised THEN st
    ELSE runDetectors(Tail(dets), faultySet, tryDetector(Head(dets), faultySet, st))

\* no structural model: parse has not run
NoContext == [code |-> EmptyCode, lines |-> <<>>, functions |-> <<>>,
              modifiers |-> <<>>, variables |-> <<>>]

NoMetadata == [total_functions |-> 0, successfully_parsed |-> 0,
               patterns_checked |-> 0, patterns_matched |-> 0]

NoResult == [findings |-> <<>>, risk_score |-> 0, classification |-> "VERY_LOW",
             confidence |-> 0, metadata |-> NoMetadata]

NoOutcome == [kind |-> "none", message |-> "", result |-> NoResult]

\* the locals of analyze as the call leaves them
frameOf(st) ==
    [context |-> st.context, allFindings |-> st.allFindings,
     patternsChecked |-> st.patternsChecked, patternsMatched |-> st.patternsMatched]

\* the end of analyze: sort by severity, build the result, return it
sortAndBuild(st) ==
    IF st.raised
    THEN [kind |-> "error", message |-> "detector error", result |-> NoResult,
          frame |-> frameOf(st)]
    ELSE [kind |-> "ok", message |-> "",
          result |-> buildResult(sortBySeverity(st.allFindings).ret,
                                 [total_functions |-> Len(st.context.functions),
                                  successfully_parsed |-> Len(st.context.functions),
                                  patterns_checked |-> st.patternsChecked,
                                  patterns_matched |-> st.patternsMatched]),
          frame |-> frameOf(st)]

\* analyze after the validity test: the detector loop on the parsed context
analyzeContext(dets, context_, faultySet, previous) ==
    sortAndBuild(runDetectors(dets, faultySet,
                              [context |-> context_,
                               allFindings |-> freshFindings(previous),
                               patternsChecked |-> 0, patternsMatched |-> 0,
                               raised |-> FALSE]))

\* analyze(contractCode) on the detector list dets.  kind "ok": result is
\* the returned RiskDetectionResult; kind "error": message is the Error
\* raised.  frame: the locals as the call left them.
analyze(dets, code, faultySet, previous) ==
    IF ~isValidSolidity(code)
    THEN [kind |-> "error", message |-> "Invalid Solidity code", result |-> NoResult,
          frame |-> [context |-> NoContext, allFindings |-> previous,
                     patternsChecked |-> 0, patternsMatched |-> 0]]
    ELSE analyzeContext(dets, parse(code), faultySet, previous)

----------------------------------------------------------------------------
(* The analysed sources *)

Catalog == {MintFn, WithdrawFn, ExecuteFn, SetFeeFn, DestroyFn, SetMaxTxFn}

\* sequences of at most n declarations
SeqsUpTo(S, n) == UNION {[1..k -> S] : k \in 0..n}

\* n copies of one declaration
Copies(f, n) == [i \in 1..n |-> f]

Preambles ==
    {[head |-> HeadEmpty,    decls |-> <<>>],
     [head |-> HeadProse,    decls |-> <<>>],
     [head |-> HeadPragma,   decls |-> <<>>],
     [head |-> HeadContract, decls |-> <<DeclMaxSupply, DeclMaxTx>>],
     [head |-> HeadPausable, decls |-> <<DeclBlacklist>>]}

ValidPreambles == {p \in Preambles : p.head \in {HeadPragma, HeadContract}}

CodesOf(preambles, funcSeqs) ==
    {[head |-> p.head, decls |-> p.decls, funcs |-> fs] : p \in preambles, fs \in funcSeqs}

EngineCodes ==
    CodesOf(Preambles \ {[head |-> HeadPausable, decls |-> <<DeclBlacklist>>]},
            SeqsUpTo(Catalog, MaxFuncs)
            \cup {Copies(ExecuteFn, n) : n \in (MaxFuncs + 1)..MaxCopies})

\* no rate limiter in the run
NoLimiter == <<>>

\* no request in the controller
NoController == [aiResponse |-> <<>>, explanations |-> <<>>, result |-> <<>>]

\* no brace scan in progress
NoScan == [code |-> <<>>, openIndex |-> 0, index |-> 0, depth |-> 0,
           bodyEnd |-> 0, body |-> <<>>]

NoCall == [set |-> FALSE, code |-> EmptyCode, outcome |-> NoOutcome]

----------------------------------------------------------------------------
(* Spec: calls of analyze, with any set of failing detectors *)

Init ==
    /\ detectors = DetectorList
    /\ pc = "idle"
    /\ contractCode = EmptyCode
    /\ faulty = {}
    /\ allFindings = <<>>
    /\ patternsChecked = 0
    /\ patternsMatched = 0
    /\ ctx = NoContext
    /\ outcome = NoOutcome
    /\ firstCall = NoCall
    /\ between = 0
    /\ scan = NoScan
    /\ controller = NoController
    /\ limiter = NoLimiter

\* a caller hands a source to analyze
Submit ==
    /\ pc = "idle"
    /\ \E code \in EngineCodes, f \in SUBSET DetectorNames :
            /\ contractCode' = code
            /\ faulty' = f
    /\ pc' = "called"
    /\ UNCHANGED <<detectors, ctx, allFindings, patternsChecked, patternsMatched,
                   outcome, firstCall, between, scan, controller, limiter>>

\* RiskEngineService.analyze, from entry to return or raise
Analyze ==
    /\ pc = "called"
    /\ \E r \in {analyze(detectors, contractCode, faulty, allFindings)} :
            /\ outcome' = [kind |-> r.kind, message |-> r.message, result |-> r.result]
            /\ allFindings' = r.frame.allFindings
            /\ patternsChecked' = r.frame.patternsChecked
            /\ patternsMatched' = r.frame.patternsMatched
            /\ ctx' = r.frame.context
    /\ pc' = "returned"
    /\ UNCHANGED <<detectors, contractCode, faulty, firstCall, between, scan, controller, limiter>>

\* the caller has taken the result; the call's frame is gone
Return ==
    /\ pc = "returned"
    /\ pc' = "idle"
    /\ contractCode' = EmptyCode
    /\ faulty' = {}
    /\ allFindings' = <<>>
    /\ patternsChecked' = 0
    /\ patternsMatched' = 0
    /\ ctx' = NoContext
    /\ outcome' = NoOutcome
    /\ UNCHANGED <<detectors, firstCall, between, scan, controller, limiter>>

Next == Submit \/ Analyze \/ Return

Spec == Init /\ [][Next]_vars

----------------------------------------------------------------------------
(* SpecScore: ScoringAlgorithmService on hand-built finding lists.  A list *)
(* grows by one finding at a time; each growth is sorted and scored.       *)

\* risk types of the hand-built lists: every severity, six weights
ScoreTypes ==
    {"SELFDESTRUCT", "EMERGENCY_WITHDRAWAL", "BALANCE_MANIPULATION",
     "TX_ORIGIN", "UNCHECKED_CALL", "MAX_TX_LIMIT"}

\* weights outside the table (0.25 and 1.25), which Math.round has to round
OffTableWeights == {25, 125}

\* the findings a hand-built list can take at position n; line_number
\* records the position
Candidates(n) ==
    {createFinding(t, n, "f", Undefined) : t \in ScoreTypes}
    \cup {[createFinding("MAX_TX_LIMIT", n, "f", Undefined) EXCEPT !.weight = w] :
             w \in OffTableWeights}

InitScore ==
    /\ detectors = DetectorList
    /\ pc = "scoring"
    /\ contractCode = EmptyCode
    /\ faulty = {}
    /\ allFindings = <<>>
    /\ patternsChecked = 0
    /\ patternsMatched = 0
    /\ ctx = NoContext
    /\ outcome = [kind |-> "ok", message |-> "", result |-> buildResult(<<>>, NoMetadata)]
    /\ firstCall = NoCall
    /\ between = 0
    /\ scan = NoScan
    /\ controller = NoController
    /\ limiter = NoLimiter

\* sortBySeverity and buildResult on the list extended by one finding
ScoreFindings ==
    /\ pc = "scoring"
    /\ Len(allFindings) < MaxFindings
    /\ \E f \in Candidates(Len(allFindings) + 1) :
         \E sorted \in {sortBySeverity(Append(allFindings, f))} :
            /\ allFindings' = sorted.arg
            /\ outcome' = [kind |-> "ok", message |-> "",
                           result |-> buildResult(sorted.ret, NoMetadata)]
    /\ UNCHANGED <<detectors, pc, contractCode, ctx, faulty, patternsChecked,
                   patternsMatched, firstCall, between, scan, controller, limiter>>

NextScore == ScoreFindings

SpecScore == InitScore /\ [][NextScore]_vars

----------------------------------------------------------------------------
(* Claims on the scoring functions (SpecScore) *)

\* number of findings of a list that carry weight w
CountWeight(findings, w) ==
    Cardinality({i \in 1..Len(findings) : findings[i].weight = w})

\* total weight of a list, occurrence by occurrence
RECURSIVE WeighedTotal(_, _)
WeighedTotal(findings, ws) ==
    IF ws = {} THEN 0
    ELSE LET w == CHOOSE x \in ws : TRUE
         IN w * CountWeight(findings, w) + WeighedTotal(findings, ws \ {w})

WeightsIn(findings) == {findings[i].weight : i \in 1..Len(findings)}

\* x hundredths rounded to tenths, halves upwards, in hundredths
RoundToTenth(x) == IF x % 10 >= 5 THEN x - (x % 10) + 10 ELSE x - (x % 10)

\* C3: the risk score of a list of findings is the smaller of 10 and the
\* sum of the weights of all its findings rounded to one decimal, every
\* occurrence of a repeated risk type counted; so it lies within [0, 10].
C3_ScoreIsCappedSum ==
    pc = "scoring" =>
        /\ calculateRiskScore(allFindings)
             = Min(1000, RoundToTenth(WeighedTotal(allFindings, WeightsIn(allFindings))))
        /\ outcome.result.risk_score = calculateRiskScore(allFindings)
        /\ outcome.result.risk_score >= 0
        /\ outcome.result.risk_score <= 1000

\* a list with a repeated risk type whose weights sum beyond the cap
C3_Witness ==
    /\ pc = "scoring"
    /\ Len(allFindings) = 3
    /\ allFindings[1].type = allFindings[2].type
    /\ allFindings[1].weight + allFindings[2].weight + allFindings[3].weight > 1000
    /\ outcome.result.risk_score = 1000

\* C6: appending a finding built from the weight table to a list never
\* lowers calculateRiskScore, also when the sum is at or beyond the cap.
C6_ScoreMonotonic ==
    pc = "scoring" =>
        \A t \in RiskType :
            calculateRiskScore(Append(allFindings,
                                      createFinding(t, Len(allFindings) + 1, "f", Undefined)))
                >= calculateRiskScore(allFindings)

\* a list already at the cap that took one more finding
C6_Witness ==
    /\ pc = "scoring"
    /\ Len(allFindings) = 3
    /\ calculateRiskScore(SubSeq(allFindings, 1, 2)) = 800
    /\ allFindings[3].weight = 400
    /\ outcome.result.risk_score = 1000

\* C7: the classification of a built result is the threshold function of
\* its risk score alone: up to 2.0 VERY_LOW, up to 4.0 LOW, up to 6.0
\* MODERATE, up to 8.0 HIGH, above that VERY_HIGH; the boundary scores
\* belong to the lower class.
C7_ClassificationThresholds ==
    pc = "scoring" =>
        LET score == outcome.result.risk_score
            class == outcome.result.classification
        IN /\ class \in RiskClassification
           /\ (class = "VERY_LOW")  <=> (score <= 200)
           /\ (class = "LOW")       <=> (200 < score /\ score <= 400)
           /\ (class = "MODERATE")  <=> (400 < score /\ score <= 600)
           /\ (class = "HIGH")      <=> (600 < score /\ score <= 800)
           /\ (class = "VERY_HIGH") <=> (800 < score)

\* a result whose score sits on the boundary 6.0
C7_Witness ==
    /\ pc = "scoring"
    /\ allFindings # <<>>
    /\ outcome.result.risk_score = 600
    /\ outcome.result.classification = "MODERATE"

\* the findings of one severity, in list order
OfSeverity(findings, sev) == SelectSeq(findings, LAMBDA f : f.severity = sev)

\* C10: the findings of a result are ordered by severity rank CRITICAL, HIGH,
\* MEDIUM, LOW; findings of equal severity keep the order in which they
\* were emitted; the result is a permutation of the sorted list, and the
\* list handed to sortBySeverity is left as it was.
C10_SortedStable ==
    pc = "scoring" =>
        /\ \A i, j \in 1..Len(outcome.result.findings) :
              i < j => severityOrder(outcome.result.findings[i].severity)
                         <= severityOrder(outcome.result.findings[j].severity)
        /\ Len(outcome.result.findings) = Len(allFindings)
        /\ \A sev \in Severity :
              OfSeverity(outcome.result.findings, sev) = OfSeverity(allFindings, sev)
        /\ \A i \in 1..Len(allFindings) : allFindings[i].line_number = i

\* a list the sort has to reorder, with a tie between different findings
C10_Witness ==
    /\ pc = "scoring"
    /\ Len(allFindings) = 3
    /\ allFindings[1].severity = "LOW"
    /\ allFindings[2].type = "SELFDESTRUCT"
    /\ allFindings[3].type = "EMERGENCY_WITHDRAWAL"
    /\ outcome.result.findings[1].type = "SELFDESTRUCT"
    /\ outcome.result.findings[3].severity = "LOW"

----------------------------------------------------------------------------
(* Claims on analyze (Spec) *)

\* number of occurrences of x in a list
Count(list, x) == Cardinality({i \in 1..Len(list) : list[i] = x})

\* same members, each as often
SameBag(a, b) ==
    /\ Len(a) = Len(b)
    /\ \A i \in 1..Len(a) : Count(a, a[i]) = Count(b, a[i])

\* what the detectors of dets outside faultySet emit on a context,
\* detector by detector
EmittedIn(dets, context, faultySet) ==
    [i \in 1..Len(dets) |->
        IF dets[i] \in faultySet THEN <<>> ELSE detect(dets[i], context)]

RECURSIVE PatternTotal(_, _)
PatternTotal(dets, faultySet) ==
    IF dets = <<>> THEN 0
    ELSE (IF Head(dets) \in faultySet THEN 0 ELSE getPatternCount(Head(dets)))
         + PatternTotal(Tail(dets), faultySet)

\* C1: when detect() of some detectors raises, analyze still returns a
\* result: a raising detector contributes no finding, every other detector
\* of the list is run, and every finding of the others is in the result;
\* whichever detectors raise, and however many.
C1_DetectorFailureIsolated ==
    (pc = "returned" /\ isValidSolidity(contractCode)) =>
        /\ outcome.kind = "ok"
        /\ allFindings = Concat(EmittedIn(detectors, parse(contractCode), faulty))
        /\ SameBag(outcome.result.findings, allFindings)
        /\ outcome.result.metadata.patterns_checked = PatternTotal(detectors, faulty)
        /\ outcome.result.metadata.patterns_matched = Len(allFindings)

\* an analysis in which a detector that had findings to report raised,
\* and the findings of the others came back
C1_Witness ==
    /\ pc = "returned"
    /\ isValidSolidity(contractCode)
    /\ faulty # {}
    /\ faulty # DetectorNames
    /\ \E d \in faulty : detect(d, parse(contractCode)) # <<>>
    /\ outcome.kind = "ok"
    /\ outcome.result.findings # <<>>

\* C2: for the empty string, or text with none of the structural keywords,
\* the validity check is false and analyze completes without raising and
\* reports no findings.
C2_InvalidInputCompletes ==
    (pc = "returned" /\ ~isValidSolidity(contractCode)) =>
        /\ outcome.kind = "ok"
        /\ outcome.result.findings = <<>>

\* C4: the confidence of every result analyze returns lies in [0, 1].
C4_ConfidenceInUnitRange ==
    (pc = "returned" /\ outcome.kind = "ok" /\ faulty = {}) =>
        /\ outcome.result.confidence >= 0
        /\ outcome.result.confidence <= 100

\* C8: every finding of every result carries the severity and the weight
\* the RISK_WEIGHTS table gives its type, so two findings of one type never
\* differ in severity or weight, whatever analyses came before.
C8_FindingsCarryTableWeights ==
    (pc = "returned" /\ outcome.kind = "ok") =>
        /\ \A i \in 1..Len(outcome.result.findings) :
              /\ outcome.result.findings[i].type \in RiskType
              /\ outcome.result.findings[i].severity
                    = RISK_WEIGHTS[outcome.result.findings[i].type].severity
              /\ outcome.result.findings[i].weight
                    = RISK_WEIGHTS[outcome.result.findings[i].type].weight
        /\ \A i, j \in 1..Len(outcome.result.findings) :
              outcome.result.findings[i].type = outcome.result.findings[j].type
                => /\ outcome.result.findings[i].severity = outcome.result.findings[j].severity
                   /\ outcome.result.findings[i].weight = outcome.result.findings[j].weight

\* a result with two findings of one type, made for functions with a modifier
C8_Witness ==
    /\ pc = "returned"
    /\ outcome.kind = "ok"
    /\ \E i, j \in 1..Len(outcome.result.findings) :
          /\ i < j
          /\ outcome.result.findings[i].type = outcome.result.findings[j].type
          /\ outcome.result.findings[i].modifier_name # Undefined
          /\ outcome.result.findings[j].modifier_name # Undefined

----------------------------------------------------------------------------
(* SpecOrder: analyze with the detector list in any order *)

\* declarations whose findings tie in severity across detectors
OrderCatalog == {MintFn, WithdrawFn, ExecuteFn}

OrderCodes ==
    CodesOf({[head |-> HeadPragma, decls |-> <<>>],
             [head |-> HeadPausable, decls |-> <<DeclBlacklist>>]},
            SeqsUpTo(OrderCatalog, MaxOrderFuncs))

\* the orders of the detector list
DetectorOrders ==
    {[i \in 1..Len(DetectorList) |-> DetectorList[p[i]]] :
        p \in Permutations(1..Len(DetectorList))}

InitOrder ==
    /\ detectors \in DetectorOrders
    /\ pc = "idle"
    /\ contractCode = EmptyCode
    /\ faulty = {}
    /\ allFindings = <<>>
    /\ patternsChecked = 0
    /\ patternsMatched = 0
    /\ ctx = NoContext
    /\ outcome = NoOutcome
    /\ firstCall = NoCall
    /\ between = 0
    /\ scan = NoScan
    /\ controller = NoController
    /\ limiter = NoLimiter

\* a caller hands a source to analyze; no detector raises
SubmitOrder ==
    /\ pc = "idle"
    /\ \E code \in OrderCodes : contractCode' = code
    /\ faulty' = {}
    /\ pc' = "called"
    /\ UNCHANGED <<detectors, ctx, allFindings, patternsChecked, patternsMatched,
                   outcome, firstCall, between, scan, controller, limiter>>

NextOrder == SubmitOrder \/ Analyze \/ Return

SpecOrder == InitOrder /\ [][NextOrder]_vars

\* the findings of a list that detector d emits on the context, in list order
FromDetector(findings, emitted) ==
    SelectSeq(findings, LAMBDA f : \E k \in 1..Len(emitted) : emitted[k] = f)

\* result agrees with the result ref of the declared detector order in
\* everything but the order of equally severe findings of different detectors
AgreesUpToTies(result, ref, context) ==
    /\ SameBag(result.findings, ref.findings)
    /\ \A i \in 1..Len(result.findings) :
          result.findings[i].severity = ref.findings[i].severity
    /\ \A d \in DetectorNames :
          \E emitted \in {detect(d, context)} :
              FromDetector(result.findings, emitted) = FromDetector(ref.findings, emitted)
    /\ result.risk_score = ref.risk_score
    /\ result.classification = ref.classification
    /\ result.confidence = ref.confidence
    /\ result.metadata = ref.metadata

----------------------------------------------------------------------------
(* SpecRepeat: repeated analyses; one completed call is remembered and     *)
(* later calls on the same source are compared with it.  The locals of a  *)
(* call stay where the call left them until the next call starts.         *)

RepeatCodes ==
    CodesOf(ValidPreambles, SeqsUpTo(OrderCatalog, MaxRepeatFuncs)) \cup {EmptyCode}

\* a caller hands a source to analyze; no detector raises
SubmitRepeat ==
    /\ pc = "idle"
    /\ \E code \in RepeatCodes :
            /\ (firstCall.set /\ code # firstCall.code) => between < MaxBetween
            /\ contractCode' = code
    /\ faulty' = {}
    /\ pc' = "called"
    /\ UNCHANGED <<detectors, ctx, allFindings, patternsChecked, patternsMatched,
                   outcome, firstCall, between, scan, controller, limiter>>

\* the caller keeps the source and what analyze gave for it
Remember ==
    /\ pc = "returned"
    /\ ~firstCall.set
    /\ firstCall' = [set |-> TRUE, code |-> contractCode, outcome |-> outcome]
    /\ between' = 0
    /\ pc' = "idle"
    /\ UNCHANGED <<detectors, contractCode, ctx, faulty, allFindings, patternsChecked,
                   patternsMatched, outcome, scan, controller, limiter>>

\* the caller takes the result and goes on
ReturnRepeat ==
    /\ pc = "returned"
    /\ between' = IF firstCall.set /\ contractCode # firstCall.code
                  THEN between + 1 ELSE between
    /\ pc' = "idle"
    /\ UNCHANGED <<detectors, contractCode, ctx, faulty, allFindings, patternsChecked,
                   patternsMatched, outcome, firstCall, scan, controller, limiter>>

NextRepeat == SubmitRepeat \/ Analyze \/ Remember \/ ReturnRepeat

SpecRepeat == Init /\ [][NextRepeat]_vars

\* C9: analysing the same source again gives the identical outcome
\* (findings, order, risk score, classification, confidence, metadata),
\* also when other sources were analysed in between on the same detectors.
C9_RepeatAnalysisIdentical ==
    (pc = "returned" /\ firstCall.set /\ contractCode = firstCall.code) =>
        outcome = firstCall.outcome

\* a source with findings analysed again after analyses of other sources
C9_Witness ==
    /\ pc = "returned"
    /\ firstCall.set
    /\ contractCode = firstCall.code
    /\ between = MaxBetween
    /\ outcome.kind = "ok"
    /\ outcome.result.findings # <<>>
    /\ allFindings # <<>>

----------------------------------------------------------------------------
\* arguments tried on calculateConfidence next to the ones analyze passes
ConfidenceArgs == 0..(MaxFindings + 1)

\* C18: calculateConfidence returns exactly 0.5 whenever total_functions is 0
\* or patterns_checked is 0, whatever the other arguments are; in analyze
\* this covers a source with no function and a run in which every detector
\* failed.
C18_DefaultConfidence ==
    /\ \A a \in ConfidenceArgs, b \in ConfidenceArgs, c \in ConfidenceArgs :
          /\ calculateConfidence(0, a, b, c) = 50
          /\ calculateConfidence(a, b, 0, c) = 50
    /\ (pc = "returned" /\ outcome.kind = "ok") =>
          /\ (\/ outcome.result.metadata.total_functions = 0
              \/ outcome.result.metadata.patterns_checked = 0)
                => outcome.result.confidence = 50
          /\ ctx.functions = <<>> =>
                /\ outcome.result.metadata.total_functions = 0
                /\ outcome.result.confidence = 50
          /\ faulty = DetectorNames =>
                /\ outcome.result.metadata.patterns_checked = 0
                /\ outcome.result.confidence = 50

\* every detector failed on a source that declares a function
C18_Witness ==
    /\ pc = "returned"
    /\ outcome.kind = "ok"
    /\ faulty = DetectorNames
    /\ outcome.result.metadata.total_functions = 1
    /\ outcome.result.metadata.patterns_checked = 0
    /\ outcome.result.confidence = 50

(***************************************************************************)
(* app.ts, the body of a declaration: characters and brace matching.  A    *)
(* text is a sequence of characters; positions are counted from 0 as in    *)
(* the source, so that position p is element p + 1 of the sequence.        *)
(***************************************************************************)
MaxTextLen == 5

Chars == {"{", "}", "x"}

charAt(code, p) == code[p + 1]

\* code.substring(from, to)
substring(code, from, to) == SubSeq(code, from + 1, to)

\* code.indexOf('{', startIndex), for a text that has one there or later
indexOfBrace(code, startIndex) ==
    CHOOSE p \in startIndex..(Len(code) - 1) :
        /\ charAt(code, p) = "{"
        /\ \A q \in startIndex..(p - 1) : charAt(code, q) # "{"

\* a scan that counts closing braces only
depthAfter_flat(depth, ch) == IF ch = "}" THEN depth - 1 ELSE depth

\* one iteration of the loop of findMatchingBrace on the character read
depthAfter(depth, ch) ==
    IF ch = "{" THEN depth + 1
    ELSE IF ch = "}" THEN depth - 1
    ELSE depth

\* extractFunctions: the declaration found at startIndex, its opening brace,
\* and the locals of findMatchingBrace before the loop
startScan(code, startIndex) ==
    [code      |-> code,
     openIndex |-> indexOfBrace(code, startIndex),
     index     |-> indexOfBrace(code, startIndex) + 1,
     depth     |-> 1,
     bodyEnd   |-> 0,
     body      |-> <<>>]

\* what findMatchingBrace returns when the loop is left
findMatchingBrace_return(s) == IF s.depth = 0 THEN s.index - 1 ELSE Len(s.code)

InitBrace ==
    /\ detectors = DetectorList
    /\ pc = "scanning"
    /\ contractCode = EmptyCode
    /\ ctx = NoContext
    /\ faulty = {}
    /\ allFindings = <<>>
    /\ patternsChecked = 0
    /\ patternsMatched = 0
    /\ outcome = NoOutcome
    /\ firstCall = NoCall
    /\ between = 0
    /\ controller = NoController
    /\ limiter = NoLimiter
    /\ \E code \in SeqsUpTo(Chars, MaxTextLen) :
          \E startIndex \in 0..(Len(code) - 1) :
             /\ \E p \in startIndex..(Len(code) - 1) : charAt(code, p) = "{"
             /\ scan = startScan(code, startIndex)

\* while (index < code.length && depth > 0) { ...; index++ }
ScanStep ==
    /\ pc = "scanning"
    /\ scan.index < Len(scan.code)
    /\ scan.depth > 0
    /\ scan' = [scan EXCEPT !.depth = depthAfter(scan.depth, charAt(scan.code, scan.index)),
                            !.index = scan.index + 1]
    /\ UNCHANGED <<detectors, pc, contractCode, ctx, faulty, allFindings,
                   patternsChecked, patternsMatched, outcome, firstCall, between,
                   controller, limiter>>

\* the loop is left: findMatchingBrace returns and extractFunctions cuts the body
ScanReturn ==
    /\ pc = "scanning"
    /\ ~(scan.index < Len(scan.code) /\ scan.depth > 0)
    /\ scan' = [scan EXCEPT !.bodyEnd = findMatchingBrace_return(scan),
                            !.body = substring(scan.code, scan.openIndex + 1,
                                               findMatchingBrace_return(scan))]
    /\ pc' = "scanned"
    /\ UNCHANGED <<detectors, contractCode, ctx, faulty, allFindings,
                   patternsChecked, patternsMatched, outcome, firstCall, between,
                   controller, limiter>>

NextBrace == ScanStep \/ ScanReturn

\* the scan is sequential code: the loop keeps running until it is left
SpecBrace == InitBrace /\ [][NextBrace]_vars /\ WF_vars(NextBrace)

\* number of positions in from..to holding the character ch
CountChar(code, from, to, ch) ==
    Cardinality({p \in from..to : charAt(code, p) = ch})

\* nesting depth after position p, the brace at open counted as depth 1
Nesting(code, open, p) ==
    1 + CountChar(code, open + 1, p, "{") - CountChar(code, open + 1, p, "}")

\* no closing brace of the sequence is left without an earlier opening one,
\* and none of the opening ones is left open
Balanced(body) ==
    /\ \A k \in 1..Len(body) :
          Cardinality({j \in 1..k : body[j] = "}"}) <= Cardinality({j \in 1..k : body[j] = "{"})
    /\ Cardinality({j \in 1..Len(body) : body[j] = "}"})
          = Cardinality({j \in 1..Len(body) : body[j] = "{"})

\* positions after open where the nesting depth is back to zero
Closers(code, open) ==
    {p \in (open + 1)..(Len(code) - 1) : Nesting(code, open, p) = 0}

C17_ScanInvariant ==
    /\ pc = "scanning" =>
          /\ scan.openIndex < scan.index
          /\ scan.index <= Len(scan.code)
          /\ scan.depth = Nesting(scan.code, scan.openIndex, scan.index - 1)
          /\ \A p \in (scan.openIndex + 1)..(scan.index - 2) :
                Nesting(scan.code, scan.openIndex, p) > 0
    /\ pc = "scanned" =>
          /\ charAt(scan.code, scan.openIndex) = "{"
          /\ scan.body = substring(scan.code, scan.openIndex + 1, scan.bodyEnd)
          /\ IF Closers(scan.code, scan.openIndex) # {}
             THEN /\ scan.bodyEnd \in Closers(scan.code, scan.openIndex)
                  /\ \A p \in Closers(scan.code, scan.openIndex) : scan.bodyEnd <= p
                  /\ charAt(scan.code, scan.bodyEnd) = "}"
                  /\ Balanced(scan.body)
             ELSE /\ scan.bodyEnd = Len(scan.code)
                  /\ scan.body = substring(scan.code, scan.openIndex + 1, Len(scan.code))

\* C17: the body cut for a declaration starts after the first '{' at or after
\* the declaration and ends at the first later position where the nesting
\* depth is back to zero, so it is brace-balanced; when the depth never
\* returns to zero the body runs to the end of the text; the scan stays
\* within the text and always ends.
C17_BraceMatching == []C17_ScanInvariant /\ <>(pc = "scanned")

\* a nested pair inside the body, matched at the outer closing brace
C17_Witness ==
    /\ pc = "scanned"
    /\ scan.code = <<"x", "{", "{", "}", "}">>
    /\ scan.openIndex = 1
    /\ scan.bodyEnd = 4
    /\ scan.body = <<"{", "}">>

(* Further claims on analyze (Spec) *)

\* C11: when the detectors produce no finding on an input, the result has
\* risk score 0.0 and classification VERY_LOW.
C11_NoFindingsScoreZero ==
    (pc = "returned" /\ outcome.kind = "ok" /\ outcome.result.findings = <<>>) =>
        /\ outcome.result.risk_score = 0
        /\ outcome.result.classification = "VERY_LOW"

\* a valid source with a function on which no detector, all of them
\* running, finds anything
C11_Witness ==
    /\ pc = "returned"
    /\ outcome.kind = "ok"
    /\ faulty = {}
    /\ Len(contractCode.funcs) >= 1
    /\ outcome.result.metadata.patterns_checked = 21
    /\ outcome.result.findings = <<>>
    /\ outcome.result.risk_score = 0

----------------------------------------------------------------------------
(* SpecScenario: analyze on the sources of the documented scenarios; no    *)
(* detector raises.                                                        *)

ScenarioCatalog ==
    {OpenMintFn, CheckedMintFn, OriginMintFn, MintFn, DestroyFn, WithdrawFn,
     PauseFn, GuardedFn, ExecuteFn}

\* statement lines of a function that makes low-level calls
CallStmts == {StmtCall, StmtBoolCall, StmtRequireSuccess, StmtNoop}

ScenarioCodes ==
    CodesOf(ValidPreambles, SeqsUpTo(ScenarioCatalog, MaxScenarioFuncs))
    \cup CodesOf({[head |-> HeadPragma, decls |-> <<>>]},
                 {<<CallFn(body)>> : body \in SeqsUpTo(CallStmts, MaxBodyLines)})

\* a caller hands a scenario source to analyze
SubmitScenario ==
    /\ pc = "idle"
    /\ \E code \in ScenarioCodes : contractCode' = code
    /\ faulty' = {}
    /\ pc' = "called"
    /\ UNCHANGED <<detectors, ctx, allFindings, patternsChecked, patternsMatched,
                   outcome, firstCall, between, scan, controller, limiter>>

NextScenario == SubmitScenario \/ Analyze \/ Return

SpecScenario == Init /\ [][NextScenario]_vars

\* the findings of a type in a list
OfType(findings, type) == SelectSeq(findings, LAMBDA f : f.type = type)

\* a source whose only function is a public mint without owner-style
\* modifier and without owner check, and without a supply cap declared
ScenarioA(code) ==
    /\ Len(code.funcs) = 1
    /\ code.funcs[1].name = "mint"
    /\ code.funcs[1].visibility = "public"
    /\ code.funcs[1].modifiers = <<>>
    /\ ~\E i \in 1..Len(code.funcs[1].body) :
            includes(code.funcs[1].body[i], "msg.sender")
    /\ ~\E i \in 1..Len(code.decls) : code.decls[i] = DeclMaxSupply

\* the body of the only function checks the total supply
ChecksSupply(code) ==
    /\ \E i \in 1..Len(code.funcs[1].body) :
            includes(code.funcs[1].body[i], "totalSupply")
    /\ \E i \in 1..Len(code.funcs[1].body) :
            \/ includes(code.funcs[1].body[i], "require")
            \/ includes(code.funcs[1].body[i], "if")

\* C13 (as amended): in scenario A, when the body of the mint function has
\* no check of the total supply, the analysis yields exactly one
\* UNLIMITED_MINTING finding (CRITICAL, weight 3.0) and no other minting
\* finding; every further finding comes from what the body or the header
\* holds for another detector, and when there is none the risk score is 3.0
\* and the classification LOW.  When the body checks the total supply, no
\* UNLIMITED_MINTING finding is made.
C13_ScenarioAUnlimitedMinting ==
    (pc = "returned" /\ outcome.kind = "ok" /\ ScenarioA(contractCode)) =>
        IF ChecksSupply(contractCode)
        THEN OfType(outcome.result.findings, "UNLIMITED_MINTING") = <<>>
        ELSE /\ Len(OfType(outcome.result.findings, "UNLIMITED_MINTING")) = 1
             /\ OfType(outcome.result.findings, "UNLIMITED_MINTING")[1].severity = "CRITICAL"
             /\ OfType(outcome.result.findings, "UNLIMITED_MINTING")[1].weight = 300
             /\ OfType(outcome.result.findings, "OWNER_RESTRICTED_MINTING") = <<>>
             /\ Len(outcome.result.findings) = 1
                  => /\ outcome.result.risk_score = 300
                     /\ outcome.result.classification = "LOW"

\* scenario A with a plain body: one finding, score 3.0, LOW
C13_Witness ==
    /\ pc = "returned"
    /\ outcome.kind = "ok"
    /\ ScenarioA(contractCode)
    /\ ~ChecksSupply(contractCode)
    /\ Len(outcome.result.findings) = 1
    /\ outcome.result.findings[1].type = "UNLIMITED_MINTING"
    /\ outcome.result.risk_score = 300
    /\ outcome.result.classification = "LOW"

\* C13 (as stated): in scenario A the analysis yields exactly one finding,
\* UNLIMITED_MINTING (CRITICAL, weight 3.0), with risk score 3.0 and
\* classification LOW, whatever the body of the mint function contains.
C13_ScenarioAWhateverBody ==
    (pc = "returned" /\ outcome.kind = "ok" /\ ScenarioA(contractCode)) =>
        /\ Len(outcome.result.findings) = 1
        /\ outcome.result.findings[1].type = "UNLIMITED_MINTING"
        /\ outcome.result.findings[1].severity = "CRITICAL"
        /\ outcome.result.findings[1].weight = 300
        /\ outcome.result.risk_score = 300
        /\ outcome.result.classification = "LOW"

\* a declaration with an owner-style modifier
HasOwnerModifier(f) ==
    \E i \in 1..Len(f.modifiers) : f.modifiers[i] \in {"onlyOwner", "onlyRole"}

\* a declaration gated by an owner-style modifier or by the inline check
OwnerGated(f) ==
    \/ HasOwnerModifier(f)
    \/ \E i \in 1..Len(f.body) : f.body[i] = StmtOwnerCheck

\* number of owner-gated function declarations of a source
GatedCount(code) == Cardinality({i \in 1..Len(code.funcs) : OwnerGated(code.funcs[i])})

\* C14: scenario B: when a function gated by an owner-style modifier holds
\* the selfdestruct construct, the analysis yields exactly one SELFDESTRUCT
\* finding (CRITICAL, weight 4.0), and a CENTRALIZED_OWNERSHIP finding only
\* when the number of owner-gated functions reaches 3.
C14_ScenarioBSelfdestruct ==
    (/\ pc = "returned"
     /\ outcome.kind = "ok"
     /\ \E i \in 1..Len(contractCode.funcs) :
            /\ HasOwnerModifier(contractCode.funcs[i])
            /\ StmtDestruct \in {contractCode.funcs[i].body[k] :
                                    k \in 1..Len(contractCode.funcs[i].body)}) =>
        /\ Len(OfType(outcome.result.findings, "SELFDESTRUCT")) = 1
        /\ OfType(outcome.result.findings, "SELFDESTRUCT")[1].severity = "CRITICAL"
        /\ OfType(outcome.result.findings, "SELFDESTRUCT")[1].weight = 400
        /\ OfType(outcome.result.findings, "CENTRALIZED_OWNERSHIP") # <<>>
              => GatedCount(contractCode) >= 3

\* two owner-gated functions, both with selfdestruct: one SELFDESTRUCT
\* finding and no CENTRALIZED_OWNERSHIP finding
C14_Witness ==
    /\ pc = "returned"
    /\ outcome.kind = "ok"
    /\ contractCode.funcs = <<DestroyFn, DestroyFn>>
    /\ Len(OfType(outcome.result.findings, "SELFDESTRUCT")) = 1
    /\ OfType(outcome.result.findings, "CENTRALIZED_OWNERSHIP") = <<>>

\* number of declarations of a source equal to f
Declared(code, f) == Cardinality({i \in 1..Len(code.funcs) : code.funcs[i] = f})

CheckedCallSite(f, k) ==
    /\ f.body[k] \in {StmtCall, StmtBoolCall}
    /\ \E j \in (k + 1)..(k + 2) : j <= Len(f.body) /\ f.body[j] = StmtRequireSuccess

\* C16: scenario E: a low-level call whose success flag is checked by
\* require(success, ...) on a line of the context window after it gets no
\* UNCHECKED_CALL finding for that call site.
C16_CheckedCallNotReported ==
    (pc = "returned" /\ outcome.kind = "ok") =>
        \A i \in 1..Len(ctx.functions) :
            \A k \in 1..Len(ctx.functions[i].body) :
                CheckedCallSite(ctx.functions[i], k) =>
                    ~\E n \in 1..Len(outcome.result.findings) :
                        /\ outcome.result.findings[n].type = "UNCHECKED_CALL"
                        /\ outcome.result.findings[n].line_number
                              = ctx.functions[i].startLine + k

\* a call checked on the last line of its window, and a later unchecked
\* call of the same function that is reported
C16_Witness ==
    /\ pc = "returned"
    /\ outcome.kind = "ok"
    /\ contractCode.funcs = <<CallFn(<<StmtCall, StmtNoop, StmtRequireSuccess, StmtCall>>)>>
    /\ CheckedCallSite(ctx.functions[1], 1)
    /\ Len(outcome.result.findings) = 1
    /\ outcome.result.findings[1].type = "UNCHECKED_CALL"
    /\ outcome.result.findings[1].line_number = ctx.functions[1].startLine + 4

-----------------------------------------------------------------------------
(***************************************************************************)
(* AIExplanationService and AnalyzeController.analyze.  The AI service is  *)
(* an external collaborator: callAIService either raises (as the           *)
(* placeholder of this build always does) or hands back a text, modelled   *)
(* by what validateAndParse reads from it.  The controller is modelled on  *)
(* the path of a direct source text that is not in the cache.              *)
(***************************************************************************)
MaxReplyLen == 2
MaxExplainFuncs == 2

TextShort == "Explained in one sentence."
TextLong  == "A text longer than every limit of validateLengths."

\* text.length; the texts the service writes itself are all short
length(text) ==
    CASE text = ""       -> 0
      [] text = TextLong -> 501
      [] OTHER           -> 26

\* a type no entry of RiskType carries
ForeignType == "RUG_PULL"

ReplyTypes == {"UNLIMITED_MINTING", "SELFDESTRUCT", "TX_ORIGIN", ForeignType}

Explained(type) ==
    [type |-> type, beginner |-> TextShort, developer |-> TextShort,
     why_it_matters |-> TextShort, mitigation |-> TextShort]

\* the entries a reply may list: well-formed ones and ones with a field
\* missing or too long
ReplyEntries ==
    {Explained(t) : t \in ReplyTypes}
        \cup {[Explained("SELFDESTRUCT") EXCEPT !.type = ""],
              [Explained("SELFDESTRUCT") EXCEPT !.beginner = ""],
              [Explained("SELFDESTRUCT") EXCEPT !.developer = TextLong],
              [Explained("SELFDESTRUCT") EXCEPT !.why_it_matters = ""],
              [Explained("SELFDESTRUCT") EXCEPT !.mitigation = TextLong]}

AIReply(kind, beginnerSummary, developerSummary, riskExplanations) ==
    [kind |-> kind, beginner_summary |-> beginnerSummary,
     developer_summary |-> developerSummary, risk_explanations |-> riskExplanations]

\* what callAIService does: "raise", or a text without a JSON object
\* ("noJson"), with an object whose risk_explanations is no array
\* ("notArray"), or with an object that has the array ("json")
AIReplies ==
    {AIReply(k, TextShort, TextShort, <<>>) : k \in {"raise", "noJson", "notArray"}}
        \cup {AIReply("json", s[1], s[2], e) :
                 s \in {<<TextShort, TextShort>>, <<"", TextShort>>, <<TextShort, TextLong>>,
                        <<TextLong, TextShort>>, <<TextShort, "">>},
                 e \in SeqsUpTo(ReplyEntries, MaxReplyLen)}

\* the finding's reason text, which the detectors write per type
machine_reason(risk) == "machine reason"

validateStructure(parsed, input) ==
    /\ parsed.beginner_summary # ""
    /\ parsed.developer_summary # ""
    /\ parsed.kind # "notArray"
    /\ Len(parsed.risk_explanations) = Len(input.risks)
    /\ \A k \in 1..Len(parsed.risk_explanations) :
          /\ parsed.risk_explanations[k].type # ""
          /\ parsed.risk_explanations[k].beginner # ""
          /\ parsed.risk_explanations[k].developer # ""
          /\ parsed.risk_explanations[k].why_it_matters # ""
          /\ parsed.risk_explanations[k].mitigation # ""

validateLengths(parsed) ==
    /\ length(parsed.beginner_summary) <= 400
    /\ length(parsed.developer_summary) <= 500
    /\ \A k \in 1..Len(parsed.risk_explanations) :
          /\ length(parsed.risk_explanations[k].beginner) <= 300
          /\ length(parsed.risk_explanations[k].developer) <= 400
          /\ length(parsed.risk_explanations[k].why_it_matters) <= 200
          /\ length(parsed.risk_explanations[k].mitigation) <= 300

validateNoNewRisks(parsed, input) ==
    {parsed.risk_explanations[k].type : k \in 1..Len(parsed.risk_explanations)}
        \subseteq {input.risks[k].type : k \in 1..Len(input.risks)}

getClassificationText(score) ==
    IF score <= 200 THEN "very low"
    ELSE IF score <= 400 THEN "low"
    ELSE IF score <= 600 THEN "moderate"
    ELSE IF score <= 800 THEN "high"
    ELSE "very high"

getDefaultBeginnerExplanation(type) ==
    CASE type = "UNLIMITED_MINTING" -> "The owner can create unlimited tokens without restrictions."
      [] type = "OWNER_RESTRICTED_MINTING" -> "Only the owner can create new tokens, centralizing supply control."
      [] type = "WITHDRAW_FUNCTION" -> "The owner can withdraw funds from the contract."
      [] type = "EMERGENCY_WITHDRAWAL" -> "There is an emergency function that can drain all funds."
      [] type = "BALANCE_MANIPULATION" -> "Privileged accounts can modify user balances directly."
      [] type = "CENTRALIZED_OWNERSHIP" -> "A single address controls multiple critical functions."
      [] type = "PAUSABLE_CONTRACT" -> "The contract can be paused, freezing all operations."
      [] type = "OWNERSHIP_TRANSFER" -> "Contract ownership can be transferred to a new address."
      [] type = "DELEGATECALL_USAGE" -> "The contract uses delegatecall, allowing code execution in its context."
      [] type = "UUPS_PROXY" -> "The contract is upgradeable and its logic can be changed."
      [] type = "TRANSPARENT_PROXY" -> "The contract implementation can be swapped completely."
      [] type = "SELFDESTRUCT" -> "The contract can be permanently destroyed."
      [] type = "TX_ORIGIN" -> "The contract uses tx.origin, which is vulnerable to phishing."
      [] type = "UNCHECKED_CALL" -> "External calls are not properly checked for failures."
      [] type = "ADJUSTABLE_FEES" -> "The owner can change fees or taxes at any time."
      [] type = "BLACKLIST_MODIFICATION" -> "The owner can blacklist addresses from interacting."
      [] type = "MAX_TX_LIMIT" -> "Transaction limits can be modified by the owner."
      [] type = "WHITELIST_MODIFICATION" -> "The owner controls who can interact with the contract."
      [] OTHER -> "A security concern was detected."

fallbackExplanation(risk) ==
    [type           |-> risk.type,
     beginner       |-> getDefaultBeginnerExplanation(risk.type),
     developer      |-> machine_reason(risk),
     why_it_matters |-> "This could affect your ability to interact with or withdraw from the contract.",
     mitigation     |-> "Consider avoiding contracts with this pattern or using contracts with timelock/multisig protections."]

\* the summaries name the count, the classification text and the score
generateFallbackExplanations(input) ==
    [beginner_summary  |-> <<"concerns", Len(input.risks), getClassificationText(input.risk_score)>>,
     developer_summary |-> <<"risks", Len(input.risks), input.risk_score>>,
     risk_explanations |-> [k \in 1..Len(input.risks) |-> fallbackExplanation(input.risks[k])]]

\* the try block of validateAndParse runs to its return
accepts(aiResponse, input) ==
    /\ aiResponse.kind \in {"json", "notArray"}
    /\ validateStructure(aiResponse, input)
    /\ validateLengths(aiResponse)
    /\ validateNoNewRisks(aiResponse, input)

validateAndParse(aiResponse, input) ==
    IF accepts(aiResponse, input)
    THEN [beginner_summary  |-> aiResponse.beginner_summary,
          developer_summary |-> aiResponse.developer_summary,
          risk_explanations |-> aiResponse.risk_explanations]
    ELSE generateFallbackExplanations(input)

\* the controller's step 4: generateExplanations, and the fallback of the
\* controller when it rejects
explanationsFor(aiResponse, input) ==
    IF aiResponse.kind = "raise"
    THEN generateFallbackExplanations(input)
    ELSE validateAndParse(aiResponse, input)

explanationInput(detectionResult) ==
    [risk_score |-> detectionResult.risk_score,
     risks      |-> detectionResult.findings,
     confidence |-> detectionResult.confidence]

\* explanations.risk_explanations[index]?.field || fallback
orElse(entries, index, field, fallback) ==
    IF index <= Len(entries) /\ entries[index][field] # ""
    THEN entries[index][field]
    ELSE fallback

\* a merge that takes the type of a risk from its explanation
mergeRisk_fromExplanation(finding, entries, index) ==
    [type          |-> orElse(entries, index, "type", finding.type),
     severity      |-> finding.severity,
     weight        |-> finding.weight,
     line_number   |-> finding.line_number,
     function_name |-> finding.function_name,
     modifier_name |-> finding.modifier_name,
     machine_reason        |-> machine_reason(finding),
     beginner_explanation  |-> orElse(entries, index, "beginner", "Explanation unavailable"),
     developer_explanation |-> orElse(entries, index, "developer", machine_reason(finding)),
     why_it_matters        |-> orElse(entries, index, "why_it_matters", "This may affect contract safety"),
     mitigation            |-> orElse(entries, index, "mitigation", "Review this pattern carefully")]

\* one element of the controller's risks array
mergeRisk(finding, entries, index) ==
    [type          |-> finding.type,
     severity      |-> finding.severity,
     weight        |-> finding.weight,
     line_number   |-> finding.line_number,
     function_name |-> finding.function_name,
     modifier_name |-> finding.modifier_name,
     machine_reason        |-> machine_reason(finding),
     beginner_explanation  |-> orElse(entries, index, "beginner", "Explanation unavailable"),
     developer_explanation |-> orElse(entries, index, "developer", machine_reason(finding)),
     why_it_matters        |-> orElse(entries, index, "why_it_matters", "This may affect contract safety"),
     mitigation            |-> orElse(entries, index, "mitigation", "Review this pattern carefully")]

\* the controller's step 5
buildResponse(detectionResult, explanations) ==
    [risk_score        |-> detectionResult.risk_score,
     classification    |-> detectionResult.classification,
     confidence        |-> detectionResult.confidence,
     risks             |-> [i \in 1..Len(detectionResult.findings) |->
                               mergeRisk(detectionResult.findings[i],
                                         explanations.risk_explanations, i)],
     beginner_summary  |-> explanations.beginner_summary,
     developer_summary |-> explanations.developer_summary,
     total_functions   |-> detectionResult.metadata.total_functions]

controllerAfter(aiResponse, detectionResult, explanations) ==
    [aiResponse   |-> aiResponse,
     explanations |-> explanations,
     result       |-> buildResponse(detectionResult, explanations)]

ExplainCodes ==
    CodesOf({[head |-> HeadPragma, decls |-> <<>>]},
            SeqsUpTo({OpenMintFn, DestroyFn, OriginMintFn}, MaxExplainFuncs))
        \cup {EmptyCode}

\* POST /api/v1/analyze with a source text
SubmitExplain ==
    /\ pc = "idle"
    /\ \E code \in ExplainCodes : contractCode' = code
    /\ faulty' = {}
    /\ pc' = "called"
    /\ UNCHANGED <<detectors, ctx, allFindings, patternsChecked, patternsMatched,
                   outcome, firstCall, between, scan, controller, limiter>>

\* steps 4 and 5 of the controller on the detection result
Explain ==
    /\ pc = "returned"
    /\ outcome.kind = "ok"
    /\ \E aiResponse \in AIReplies :
          \E e \in {explanationsFor(aiResponse, explanationInput(outcome.result))} :
             controller' = controllerAfter(aiResponse, outcome.result, e)
    /\ pc' = "responded"
    /\ UNCHANGED <<detectors, contractCode, ctx, faulty, allFindings, patternsChecked,
                   patternsMatched, outcome, firstCall, between, scan, limiter>>

\* res.json: the request is over
Respond ==
    /\ pc = "responded"
    /\ pc' = "idle"
    /\ contractCode' = EmptyCode
    /\ allFindings' = <<>>
    /\ patternsChecked' = 0
    /\ patternsMatched' = 0
    /\ ctx' = NoContext
    /\ outcome' = NoOutcome
    /\ controller' = NoController
    /\ UNCHANGED <<detectors, faulty, firstCall, between, scan, limiter>>

\* analyze raised: next(error), no result is built
Fail ==
    /\ pc = "returned"
    /\ outcome.kind = "error"
    /\ pc' = "idle"
    /\ contractCode' = EmptyCode
    /\ allFindings' = <<>>
    /\ patternsChecked' = 0
    /\ patternsMatched' = 0
    /\ ctx' = NoContext
    /\ outcome' = NoOutcome
    /\ UNCHANGED <<detectors, faulty, firstCall, between, scan, controller, limiter>>

NextExplain == SubmitExplain \/ Analyze \/ Explain \/ Respond \/ Fail

SpecExplain == Init /\ [][NextExplain]_vars

-----------------------------------------------------------------------------
(* Claims on the explanation layer and the controller (SpecExplain) *)

TypesOf(entries) == [k \in 1..Len(entries) |-> entries[k].type]

DetectionView(detectionResult) ==
    [risk_score     |-> detectionResult.risk_score,
     classification |-> detectionResult.classification,
     risks          |-> [i \in 1..Len(detectionResult.findings) |->
                            [type     |-> detectionResult.findings[i].type,
                             severity |-> detectionResult.findings[i].severity,
                             weight   |-> detectionResult.findings[i].weight]]]

ResponseView(result) ==
    [risk_score     |-> result.risk_score,
     classification |-> result.classification,
     risks          |-> [i \in 1..Len(result.risks) |->
                            [type     |-> result.risks[i].type,
                             severity |-> result.risks[i].severity,
                             weight   |-> result.risks[i].weight]]]

Reverse(s) == [k \in 1..Len(s) |-> s[Len(s) + 1 - k]]

\* AI replies of a second run on the same detection result: a failure, a
\* text without JSON, a reply that explains every finding in order, the same
\* reply in reverse order, and a reply that names a type of its own
OtherReplies(findings) ==
    {AIReply("raise", TextShort, TextShort, <<>>),
     AIReply("noJson", TextShort, TextShort, <<>>),
     AIReply("json", TextShort, TextShort,
             [k \in 1..Len(findings) |-> Explained(findings[k].type)]),
     AIReply("json", TextShort, TextShort,
             Reverse([k \in 1..Len(findings) |-> Explained(findings[k].type)])),
     AIReply("json", TextShort, TextShort,
             [k \in 1..Len(findings) |-> Explained(ForeignType)])}

ResponseViewFor(aiResponse, detectionResult) ==
    ResponseView(buildResponse(detectionResult,
                               explanationsFor(aiResponse, explanationInput(detectionResult))))

\* C20: the response's risk_score, classification and the number, order, type,
\* severity and weight of its risks are those of the detection result, so two
\* runs that differ only in what the AI service returns (a valid reply, an
\* invalid one, or a failure) answer alike in all of these fields.
C20_AICannotChangeDetection ==
    pc = "responded" =>
        /\ ResponseView(controller.result) = DetectionView(outcome.result)
        /\ \A other \in OtherReplies(outcome.result.findings) :
              ResponseViewFor(other, outcome.result) = ResponseView(controller.result)

\* an accepted reply that lists the types of two findings in the other order
C20_Witness ==
    /\ pc = "responded"
    /\ accepts(controller.aiResponse, explanationInput(outcome.result))
    /\ TypesOf(outcome.result.findings) = <<"UNLIMITED_MINTING", "SELFDESTRUCT">>
    /\ TypesOf(controller.aiResponse.risk_explanations) = <<"SELFDESTRUCT", "UNLIMITED_MINTING">>
    /\ TypesOf(controller.result.risks) = <<"UNLIMITED_MINTING", "SELFDESTRUCT">>
    /\ controller.result.risk_score = 700

-----------------------------------------------------------------------------
(***************************************************************************)
(* analyze on sources that exercise the single detectors: several          *)
(* functions of one kind, in every order.                                  *)
(***************************************************************************)
MaxDetectFuncs == 2

DetectCatalog ==
    {ReceiveFn, FallbackFn, AddBlacklistFn, SetBlacklistFn, AddWhitelistFn,
     SetWhitelistFn, DestroyFn, KillFn, ExecuteFn, OriginMintFn, WithdrawFn,
     ClaimWithdrawFn, SetFeeFn, SetTaxFeeFn,
     CallFn(<<StmtCall, StmtNoop, StmtCall>>),
     CallFn(<<StmtBoolCall, StmtCall, StmtNoop, StmtRequireSuccess>>),
     LongSigCallFn(<<StmtNoop, StmtCall>>)}

DetectPreambles ==
    {[head |-> HeadPragma, decls |-> d] :
        d \in {<<>>, <<DeclBlacklist>>, <<DeclWhitelist>>}}

DetectCodes ==
    CodesOf(DetectPreambles, SeqsUpTo(DetectCatalog, MaxDetectFuncs)) \cup {ReadmeCode}

SubmitDetect ==
    /\ pc = "idle"
    /\ \E code \in DetectCodes : contractCode' = code
    /\ faulty' = {}
    /\ pc' = "called"
    /\ UNCHANGED <<detectors, ctx, allFindings, patternsChecked, patternsMatched,
                   outcome, firstCall, between, scan, controller, limiter>>

NextDetect == SubmitDetect \/ Analyze \/ Return

SpecDetect == Init /\ [][NextDetect]_vars

-----------------------------------------------------------------------------
(* Claims on the single detectors (SpecDetect) *)

\* C21: for the README's sample source, one owner-gated mint function with an
\* empty body and no supply cap, the analysis reports risk_score 5.0 and
\* classification MODERATE, with an OWNER_RESTRICTED_MINTING finding (HIGH,
\* weight 2.0) among the risks.
C21_ReadmeSample ==
    (pc = "returned" /\ contractCode = ReadmeCode) =>
        /\ outcome.kind = "ok"
        /\ outcome.result.risk_score = 500
        /\ outcome.result.classification = "MODERATE"
        /\ \E k \in 1..Len(outcome.result.findings) :
              /\ outcome.result.findings[k].type = "OWNER_RESTRICTED_MINTING"
              /\ outcome.result.findings[k].severity = "HIGH"
              /\ outcome.result.findings[k].weight = 200
              /\ outcome.result.findings[k].function_name = "mint"

\* the sample analysed: the unlimited-minting finding and the owner one
C21_Witness ==
    /\ pc = "returned"
    /\ contractCode = ReadmeCode
    /\ [k \in 1..Len(outcome.result.findings) |-> outcome.result.findings[k].type]
          = <<"UNLIMITED_MINTING", "OWNER_RESTRICTED_MINTING">>
    /\ outcome.result.risk_score = 500

\* the functions of the structural model that satisfy the test
NamedFallback(f) == f.name \in {"fallback", "receive"}

\* C24: whenever the structural model has a function named fallback or
\* receive whose body contains delegatecall, the upgrade detector emits a
\* TRANSPARENT_PROXY finding, whatever other functions of these names exist
\* and in whichever order; and it emits at most one per analysis.
C24_FallbackDelegatecallIsProxy ==
    (pc = "returned" /\ outcome.kind = "ok") =>
        /\ Len(OfType(outcome.result.findings, "TRANSPARENT_PROXY")) <= 1
        /\ (\E i \in 1..Len(ctx.functions) :
                /\ NamedFallback(ctx.functions[i])
                /\ bodyIncludes(ctx.functions[i], "delegatecall"))
              => Len(OfType(outcome.result.findings, "TRANSPARENT_PROXY")) = 1

\* an owner-gated add/set function of the list family named by word
GatedListSetter(f, word) ==
    /\ includes(toLowerCase(f.name), word)
    /\ includes(toLowerCase(f.name), "add") \/ includes(toLowerCase(f.name), "set")
    /\ hasModifier(f, "onlyOwner")

ListFindingRule(word, type) ==
    /\ Len(OfType(outcome.result.findings, type)) <= 1
    /\ (/\ hasVariable(ctx, word)
        /\ \E i \in 1..Len(ctx.functions) : GatedListSetter(ctx.functions[i], word))
          => Len(OfType(outcome.result.findings, type)) = 1

\* C25: BLACKLIST_MODIFICATION (likewise WHITELIST_MODIFICATION) is emitted
\* whenever a blacklist-named (whitelist-named) mapping is present and some
\* owner-gated function has a name containing the list word and 'add' or
\* 'set', whether or not functions of the family that are not owner-gated
\* are declared before it; at most one finding of each type is emitted.
C25_ListModificationWheneverGatedSetter ==
    (pc = "returned" /\ outcome.kind = "ok") =>
        /\ ListFindingRule("blacklist", "BLACKLIST_MODIFICATION")
        /\ ListFindingRule("whitelist", "WHITELIST_MODIFICATION")

\* body line k of f is a low-level call that neither its window (the line
\* and the next two body lines) nor its own line checks
UncheckedCallLine(f, k) ==
    /\ includes(f.body[k], ReCall)
    /\ ~includes(f.body[k], ReBoolSuccess)
    /\ \A j \in k..Min(k + 2, Len(f.body)) : ~includes(f.body[j], ReSuccessCheck)

UncheckedCallLines(f) == {k \in 1..Len(f.body) : UncheckedCallLine(f, k)}

\* the source line of body line k of f: the closing brace follows the last
\* body line
SourceLineOf(f, k) == f.endLine - Len(f.body) - 1 + k

FirstOf(S) == CHOOSE k \in S : \A j \in S : k <= j

\* line and function of the findings of one type, in the order of the result
Positions(findings, type) ==
    [k \in 1..Len(OfType(findings, type)) |->
        <<OfType(findings, type)[k].line_number, OfType(findings, type)[k].function_name>>]

ExpectedUnchecked(f) ==
    IF UncheckedCallLines(f) # {}
    THEN <<<<SourceLineOf(f, FirstOf(UncheckedCallLines(f))), f.name>>>>
    ELSE <<>>

\* C26: for each extracted function the dangerous-functions detector emits
\* exactly one UNCHECKED_CALL finding when the body has a low-level call line
\* that is not checked, positioned at the first such call line, and none
\* otherwise; several unchecked calls in one function give one finding.
C26_UncheckedCallOncePerFunction ==
    (pc = "returned" /\ outcome.kind = "ok") =>
        Positions(outcome.result.findings, "UNCHECKED_CALL")
            = Concat([i \in 1..Len(ctx.functions) |-> ExpectedUnchecked(ctx.functions[i])])

\* the names of the functions whose body contains the construct, in source order
NamesWith(functions, needle) ==
    Concat([i \in 1..Len(functions) |->
               IF bodyIncludes(functions[i], needle) THEN <<functions[i].name>> ELSE <<>>])

NamesOf(findings, type) ==
    [k \in 1..Len(OfType(findings, type)) |-> OfType(findings, type)[k].function_name]

\* C27: however many functions contain the selfdestruct construct, the
\* analysis has a single SELFDESTRUCT finding, and its function_name is the
\* first function in source order whose body contains the construct.
C27_SelfdestructOnceAtFirst ==
    (pc = "returned" /\ outcome.kind = "ok") =>
        /\ Len(OfType(outcome.result.findings, "SELFDESTRUCT")) <= 1
        /\ NamesWith(ctx.functions, "selfdestruct") # <<>> =>
              NamesOf(outcome.result.findings, "SELFDESTRUCT")
                  = <<NamesWith(ctx.functions, "selfdestruct")[1]>>
        /\ NamesWith(ctx.functions, "selfdestruct") = <<>> =>
              OfType(outcome.result.findings, "SELFDESTRUCT") = <<>>

\* two functions with selfdestruct, the finding names the first
C27_Witness ==
    /\ pc = "returned"
    /\ outcome.kind = "ok"
    /\ contractCode.funcs = <<KillFn, DestroyFn>>
    /\ NamesOf(outcome.result.findings, "SELFDESTRUCT") = <<"kill">>

\* C28: there is one TX_ORIGIN finding per extracted function whose body
\* contains tx.origin and one DELEGATECALL_USAGE finding per extracted
\* function whose body contains delegatecall; every such function is named by
\* exactly one finding of the type, and the findings come in source order.
C28_OncePerFunction ==
    (pc = "returned" /\ outcome.kind = "ok") =>
        /\ NamesOf(outcome.result.findings, "TX_ORIGIN") = NamesWith(ctx.functions, "tx.origin")
        /\ NamesOf(outcome.result.findings, "DELEGATECALL_USAGE")
              = NamesWith(ctx.functions, "delegatecall")

\* two functions with tx.origin, one of them with delegatecall as well
C28_Witness ==
    /\ pc = "returned"
    /\ outcome.kind = "ok"
    /\ contractCode.funcs = <<OriginMintFn, ExecuteFn>>
    /\ NamesOf(outcome.result.findings, "TX_ORIGIN") = <<"mint", "execute">>
    /\ NamesOf(outcome.result.findings, "DELEGATECALL_USAGE") = <<"execute">>

\* the finding points at a line of a function of its name that holds needle
PointsInside(finding, needle) ==
    \E i \in 1..Len(ctx.functions) :
        /\ ctx.functions[i].name = finding.function_name
        /\ ctx.functions[i].startLine <= finding.line_number
        /\ finding.line_number <= ctx.functions[i].endLine
        /\ lineIncludes(ctx.lines[finding.line_number], needle)

\* C29: every SELFDESTRUCT, TX_ORIGIN and DELEGATECALL_USAGE finding points
\* inside the function it names: its line_number lies between the function's
\* startLine and endLine and the line there contains the construct, also when
\* a textually identical line occurs earlier outside the function.
C29_ConstructFindingsPointInside ==
    (pc = "returned" /\ outcome.kind = "ok") =>
        \A k \in 1..Len(outcome.result.findings) :
            /\ outcome.result.findings[k].type = "SELFDESTRUCT"
                  => PointsInside(outcome.result.findings[k], "selfdestruct")
            /\ outcome.result.findings[k].type = "TX_ORIGIN"
                  => PointsInside(outcome.result.findings[k], "tx.origin")
            /\ outcome.result.findings[k].type = "DELEGATECALL_USAGE"
                  => PointsInside(outcome.result.findings[k], "delegatecall")

\* number of findings of the type made at the declaration line of a function
FindingsAt(findings, type, line) ==
    Cardinality({k \in 1..Len(findings) :
                    findings[k].type = type /\ findings[k].line_number = line})

\* C30: each function contributes at most one WITHDRAW_FUNCTION finding and
\* at most one ADJUSTABLE_FEES finding to an analysis, however many of the
\* detector's name patterns its name matches, so that one function raises
\* the sum of the weights by no more than the weight of the type.
C30_OneFindingPerFunctionAndType ==
    (pc = "returned" /\ outcome.kind = "ok") =>
        \A i \in 1..Len(ctx.functions) :
            /\ FindingsAt(outcome.result.findings, "WITHDRAW_FUNCTION",
                          ctx.functions[i].startLine) <= 1
            /\ FindingsAt(outcome.result.findings, "ADJUSTABLE_FEES",
                          ctx.functions[i].startLine) <= 1

-----------------------------------------------------------------------------
(***************************************************************************)
(* The Redis-based rateLimiter middleware, for one identifier and one      *)
(* endpoint.  Time is in milliseconds.  The handler reads Date.now() once  *)
(* and Redis applies INCR atomically, so that a request is one step.       *)
(***************************************************************************)
MaxArrivals == 12
MaxTicks == 2

Tiers == {"FREE", "PRO", "ENTERPRISE"}

\* config.rateLimitWindowMs and the three rateLimitMaxRequests defaults
rateLimitWindowMs == 900000

getTierLimits(tier) ==
    CASE tier = "ENTERPRISE" -> [windowMs |-> rateLimitWindowMs, maxRequests |-> 1000]
      [] tier = "PRO"        -> [windowMs |-> rateLimitWindowMs, maxRequests |-> 100]
      [] OTHER               -> [windowMs |-> rateLimitWindowMs, maxRequests |-> 10]

\* CacheKeys.rateLimit for the identifier and endpoint of the model: the key
\* is told apart by its last part only
rateLimitKey(window) == window

\* the keys Redis still holds at the time now
liveKeys(store, now) == {e \in store : e.expiresAt > now}

\* a key's counter, 0 when Redis does not hold the key
counterOf(store, key) ==
    IF \E e \in store : e.key = key
    THEN (CHOOSE e \in store : e.key = key).count
    ELSE 0

\* CacheService.incr: the value returned and the store afterwards; the
\* expiry is set on the first increment only
incr(store, key, ttlSeconds, now, connected) ==
    IF ~connected
    THEN [value |-> 0, store |-> store]
    ELSE [value |-> counterOf(store, key) + 1,
          store |-> {e \in store : e.key # key}
                    \cup {[key |-> key,
                           count |-> counterOf(store, key) + 1,
                           expiresAt |-> IF counterOf(store, key) = 0
                                         THEN now + ttlSeconds * 1000
                                         ELSE (CHOOSE e \in store : e.key = key).expiresAt]}]

\* the limiter after the handler ran on the value incr returned
afterRequest(l, r, maxRequests) ==
    [l EXCEPT !.store = r.store,
              !.arrivals = l.arrivals + 1,
              !.admitted = IF r.value > maxRequests THEN l.admitted
                           ELSE Append(l.admitted, l.now),
              !.rejected = IF r.value > maxRequests THEN l.rejected + 1
                           ELSE l.rejected]

InitRedis ==
    /\ detectors = DetectorList
    /\ pc = "idle"
    /\ contractCode = EmptyCode
    /\ ctx = NoContext
    /\ faulty = {}
    /\ allFindings = <<>>
    /\ patternsChecked = 0
    /\ patternsMatched = 0
    /\ outcome = NoOutcome
    /\ firstCall = NoCall
    /\ between = 0
    /\ scan = NoScan
    /\ controller = NoController
    /\ \E tier \in Tiers :
          limiter = [tier |-> tier, now |-> 0, ticks |-> 0, store |-> {},
                     arrivals |-> 0, admitted |-> <<>>, rejected |-> 0]

\* rateLimiter on one request of the identifier, Redis connected or not
RedisRequest ==
    /\ limiter.arrivals < MaxArrivals
    /\ \E connected \in BOOLEAN :
          \E r \in {incr(liveKeys(limiter.store, limiter.now), rateLimitKey(limiter.now),
                         getTierLimits(limiter.tier).windowMs \div 1000,
                         limiter.now, connected)} :
             limiter' = afterRequest(limiter, r, getTierLimits(limiter.tier).maxRequests)
    /\ UNCHANGED <<detectors, pc, contractCode, ctx, faulty, allFindings, patternsChecked,
                   patternsMatched, outcome, firstCall, between, scan, controller>>

\* time passes: a millisecond, or a whole window
RedisTick ==
    /\ limiter.ticks < MaxTicks
    /\ \E d \in {1, rateLimitWindowMs} :
          limiter' = [limiter EXCEPT !.now = limiter.now + d, !.ticks = limiter.ticks + 1]
    /\ UNCHANGED <<detectors, pc, contractCode, ctx, faulty, allFindings, patternsChecked,
                   patternsMatched, outcome, firstCall, between, scan, controller>>

NextRedis == RedisRequest \/ RedisTick

SpecRedis == InitRedis /\ [][NextRedis]_vars

\* number of admitted requests that arrived in the window starting at from
AdmittedIn(admitted, from, windowMs) ==
    Cardinality({j \in 1..Len(admitted) : admitted[j] >= from /\ admitted[j] < from + windowMs})

\* C22: for one identifier and one endpoint at most maxRequests of the tier
\* (FREE 10, PRO 100, ENTERPRISE 1000) are admitted within any 15-minute
\* window, whatever the arrival times of the requests are; every further
\* request in the window is rejected.
C22_TierLimitInAnyWindow ==
    \A i \in 1..Len(limiter.admitted) :
        AdmittedIn(limiter.admitted, limiter.admitted[i], rateLimitWindowMs)
            <= getTierLimits(limiter.tier).maxRequests

-----------------------------------------------------------------------------
(***************************************************************************)
(* The database-backed rateLimiter middleware, for one identifier and one  *)
(* endpoint.  A handler first finds the record and then, after the await,  *)
(* resets, rejects, increments or creates on what it found; the handlers   *)
(* of concurrent requests interleave between the two.                      *)
(***************************************************************************)
MaxDbRequests == 11

MaxDbTicks == 1

Handlers == {1, 2}

\* findUnique found no record
NoRow == [exists |-> FALSE, requestCount |-> 0, windowStart |-> 0, expiresAt |-> 0]

IdleHandler == [pc |-> "idle", now |-> 0, rateLimit |-> NoRow]

InitDb ==
    /\ detectors = DetectorList
    /\ pc = "idle"
    /\ contractCode = EmptyCode
    /\ ctx = NoContext
    /\ faulty = {}
    /\ allFindings = <<>>
    /\ patternsChecked = 0
    /\ patternsMatched = 0
    /\ outcome = NoOutcome
    /\ firstCall = NoCall
    /\ between = 0
    /\ scan = NoScan
    /\ controller = NoController
    /\ \E tier \in Tiers :
          limiter = [tier |-> tier, now |-> 0, ticks |-> 0, row |-> NoRow,
                     handlers |-> [h \in Handlers |-> IdleHandler],
                     started |-> 0, admitted |-> <<>>, rejected |-> 0]

\* the record a reset or a create writes
freshRow(now, windowMs) ==
    [exists |-> TRUE, requestCount |-> 1, windowStart |-> now, expiresAt |-> now + windowMs]

\* the limiter after the handler acted on the record it had found: the
\* window expired (reset), the count is at the limit (reject), otherwise
\* increment; without a record, create, which fails when one exists by now
afterFind(l, h, limits) ==
    IF l.handlers[h].rateLimit.exists
    THEN IF l.handlers[h].rateLimit.expiresAt < l.handlers[h].now
         THEN [l EXCEPT !.row = freshRow(l.handlers[h].now, limits.windowMs),
                        !.admitted = Append(l.admitted, l.handlers[h].now),
                        !.handlers[h] = IdleHandler]
         ELSE IF l.handlers[h].rateLimit.requestCount >= limits.maxRequests
         THEN [l EXCEPT !.rejected = l.rejected + 1,
                        !.handlers[h] = IdleHandler]
         ELSE [l EXCEPT !.row.requestCount = l.row.requestCount + 1,
                        !.admitted = Append(l.admitted, l.handlers[h].now),
                        !.handlers[h] = IdleHandler]
    ELSE IF l.row.exists
         THEN [l EXCEPT !.rejected = l.rejected + 1,
                        !.handlers[h] = IdleHandler]
         ELSE [l EXCEPT !.row = freshRow(l.handlers[h].now, limits.windowMs),
                        !.admitted = Append(l.admitted, l.handlers[h].now),
                        !.handlers[h] = IdleHandler]

\* a request arrives: now = new Date(), then findUnique
DbFind ==
    /\ limiter.started < MaxDbRequests
    /\ \E h \in Handlers :
          /\ limiter.handlers[h].pc = "idle"
          /\ limiter' = [limiter EXCEPT !.started = limiter.started + 1,
                                        !.handlers[h] = [pc |-> "found", now |-> limiter.now,
                                                         rateLimit |-> limiter.row]]
    /\ UNCHANGED <<detectors, pc, contractCode, ctx, faulty, allFindings, patternsChecked,
                   patternsMatched, outcome, firstCall, between, scan, controller>>

\* the handler goes on after the await
DbUpdate ==
    /\ \E h \in Handlers :
          /\ limiter.handlers[h].pc = "found"
          /\ limiter' = afterFind(limiter, h, getTierLimits(limiter.tier))
    /\ UNCHANGED <<detectors, pc, contractCode, ctx, faulty, allFindings, patternsChecked,
                   patternsMatched, outcome, firstCall, between, scan, controller>>

\* time passes: a millisecond, or until just after a window has expired
DbTick ==
    /\ limiter.ticks < MaxDbTicks
    /\ \E d \in {1, rateLimitWindowMs + 1} :
          limiter' = [limiter EXCEPT !.now = limiter.now + d, !.ticks = limiter.ticks + 1]
    /\ UNCHANGED <<detectors, pc, contractCode, ctx, faulty, allFindings, patternsChecked,
                   patternsMatched, outcome, firstCall, between, scan, controller>>

NextDb == DbFind \/ DbUpdate \/ DbTick

SpecDb == InitDb /\ [][NextDb]_vars

\* C23: the number of requests admitted for the identifier and endpoint
\* between a window's start and its expiresAt never exceeds the tier's
\* maxRequests, also when requests are handled concurrently and their find
\* and update steps interleave.
C23_WindowCountWithinLimit ==
    limiter.row.exists =>
        Cardinality({j \in 1..Len(limiter.admitted) :
                        /\ limiter.admitted[j] >= limiter.row.windowStart
                        /\ limiter.admitted[j] <= limiter.row.expiresAt})
            <= getTierLimits(limiter.tier).maxRequests

====
